---- MODULE Spec2Model ----
(***************************************************************************)
(* Model of the orchestration core of the AI SDR agent:                    *)
(*   tools/interaction.py  - Memory Store (remember / recall /             *)
(*                           clear_memory) and Interaction Gate            *)
(*                           (get_user_input / ensure_required_inputs)     *)
(*   tools/get_leads.py    - Lead Acquisition Orchestrator (get_leads) and *)
(*                           its adapters (Apollo, Apify, local CSV)       *)
(* Both modules are shipped as compiled CPython 3.12 code objects inside   *)
(* src/prompts/followup_email.txt; the definitions below follow that code. *)
(***************************************************************************)
EXTENDS Integers, Sequences, FiniteSets, TLC

(***************************************************************************)
(* Bounds of the model                                                     *)
(***************************************************************************)
\* longest line sequence the operator types during one ensure_required_inputs
MaxLines == 2

(***************************************************************************)
(* Values, JSON                                                            *)
(***************************************************************************)
\* Python values are records [t, v]: t is the Python type, v the text of the
\* value (an int is written in decimal).
Absent == [t |-> "absent", v |-> ""]      \* key not in a dict
PyNone == [t |-> "none", v |-> ""]        \* None
PyInt(s) == [t |-> "int", v |-> s]
PyStr(s) == [t |-> "str", v |-> s]
PyBool(s) == [t |-> "bool", v |-> s]

Keys == {"leads_count", "tone"}

\* values that callers of remember pass: ints (get_leads, coerced inputs),
\* strings (raw inputs)
Values == {PyInt("3"), PyInt("5"), PyStr("3"), PyStr("x")}

\* a serialiser that writes every value through str()
JsonDumpStr(val) == [j |-> IF val.t = "none" THEN "null" ELSE "string", v |-> val.v]

\* json.dump(..., default=str): natively serialisable values keep their JSON
\* type, anything else is written as the JSON string str(value)
JsonDump(val) ==
  CASE val.t = "int"  -> [j |-> "number", v |-> val.v]
    [] val.t = "str"  -> [j |-> "string", v |-> val.v]
    [] val.t = "bool" -> [j |-> "boolean", v |-> val.v]
    [] val.t = "float" -> [j |-> "real", v |-> val.v]
    [] val.t = "none" -> [j |-> "null", v |-> ""]
    [] OTHER          -> [j |-> "string", v |-> val.v]

\* a reader that hands every scalar back as text
JsonLoadText(tok) == IF tok.j = "null" THEN PyNone ELSE PyStr(tok.v)

\* json.load
JsonLoad(tok) ==
  CASE tok.j = "number"  -> PyInt(tok.v)
    [] tok.j = "string"  -> PyStr(tok.v)
    [] tok.j = "boolean" -> PyBool(tok.v)
    [] tok.j = "real"    -> [t |-> "float", v |-> tok.v]
    [] OTHER             -> PyNone

NoEntry == [j |-> "absent", v |-> ""]

EmptyCache == [k \in Keys |-> Absent]
EmptyMap == [k \in Keys |-> NoEntry]

\* memory.json: missing, a readable JSON object, or unparsable (a write that
\* failed after the file was truncated)
DiskMissing == [state |-> "missing", map |-> EmptyMap]
DiskCorrupt == [state |-> "corrupt", map |-> EmptyMap]
DiskOk(m) == [state |-> "ok", map |-> m]

\* outcome of the file write of one call: it completes, it raises before the
\* file is opened for writing, or it raises after the file was truncated
IoOutcomes == {"ok", "fail_early", "fail_partial"}

(***************************************************************************)
(* Memory Store (tools/interaction.py)                                     *)
(***************************************************************************)
\* result dictionaries of remember / recall / clear_memory
Result(op, status, key, value, source) ==
  [op |-> op, status |-> status, key |-> key, value |-> value, source |-> source]

\* the mapping a call reads from memory.json: json.load of a readable file;
\* a missing file is skipped and a failed load is swallowed by a bare except
ReadDisk(d) == IF d.state = "ok" THEN d.map ELSE EmptyMap

\* a remember that touches the cache only once the file is written
RememberDiskFirst(c, d, k, v, io) ==
  IF io = "ok"
    THEN [cache |-> [c EXCEPT ![k] = v],
          disk |-> DiskOk([ReadDisk(d) EXCEPT ![k] = JsonDump(v)]),
          res |-> Result("remember", "success", k, v, "")]
  ELSE [cache |-> c, disk |-> IF io = "fail_early" THEN d ELSE DiskCorrupt,
        res |-> Result("remember", "error", k, Absent, "")]

\* remember(key, value): the cache is written first, then the file is
\* loaded, mutated and rewritten; any exception turns into status "error"
RememberOp(c, d, k, v, io) ==
  LET c1 == [c EXCEPT ![k] = v]
      dm == [ReadDisk(d) EXCEPT ![k] = JsonDump(v)]
  IN CASE io = "ok" ->
            [cache |-> c1, disk |-> DiskOk(dm),
             res |-> Result("remember", "success", k, v, "")]
       [] io = "fail_early" ->
            [cache |-> c1, disk |-> d,
             res |-> Result("remember", "error", k, Absent, "")]
       [] OTHER ->
            [cache |-> c1, disk |-> DiskCorrupt,
             res |-> Result("remember", "error", k, Absent, "")]

\* a recall that never reads the file
RecallNoDisk(c, d, k, default) ==
  IF c[k] # Absent
    THEN [cache |-> c, res |-> Result("recall", "success", k, c[k], "memory")]
  ELSE IF default # PyNone
    THEN [cache |-> c, res |-> Result("recall", "success", k, default, "default")]
  ELSE [cache |-> c, res |-> Result("recall", "error", k, Absent, "")]

\* a recall that reads the file before the cache
RecallDiskFirst(c, d, k, default) ==
  IF ReadDisk(d)[k] # NoEntry
    THEN [cache |-> [c EXCEPT ![k] = JsonLoad(d.map[k])],
          res |-> Result("recall", "success", k, JsonLoad(d.map[k]), "disk")]
  ELSE IF c[k] # Absent
    THEN [cache |-> c, res |-> Result("recall", "success", k, c[k], "memory")]
  ELSE IF default # PyNone
    THEN [cache |-> c, res |-> Result("recall", "success", k, default, "default")]
  ELSE [cache |-> c, res |-> Result("recall", "error", k, Absent, "")]

\* a recall that does not keep what it finds on disk
RecallNoFill(c, d, k, default) ==
  IF c[k] # Absent
    THEN [cache |-> c, res |-> Result("recall", "success", k, c[k], "memory")]
  ELSE IF ReadDisk(d)[k] # NoEntry
    THEN [cache |-> c,
          res |-> Result("recall", "success", k, JsonLoad(d.map[k]), "disk")]
  ELSE IF default # PyNone
    THEN [cache |-> c, res |-> Result("recall", "success", k, default, "default")]
  ELSE [cache |-> c, res |-> Result("recall", "error", k, Absent, "")]

\* recall(key, default=None): cache, then disk (populating the cache), then
\* the default when it is not None, else the "Key not found" error result
RecallOp(c, d, k, default) ==
  IF c[k] # Absent
    THEN [cache |-> c, res |-> Result("recall", "success", k, c[k], "memory")]
  ELSE IF ReadDisk(d)[k] # NoEntry
    THEN [cache |-> [c EXCEPT ![k] = JsonLoad(d.map[k])],
          res |-> Result("recall", "success", k, JsonLoad(d.map[k]), "disk")]
  ELSE IF default # PyNone
    THEN [cache |-> c, res |-> Result("recall", "success", k, default, "default")]
  ELSE [cache |-> c, res |-> Result("recall", "error", k, Absent, "")]

\* whether a call opens data/memory.json: remember loads an existing file
\* and writes the file at every call; recall opens the file when the key is
\* not in the cache and the file exists
RememberOpensFile(c, d, k) == TRUE
RecallOpensFile(c, d, k) == c[k] = Absent /\ d.state # "missing"

\* a clear_memory that resets the cache and leaves the file alone
ClearCacheOnly(d, io) ==
  [cache |-> EmptyCache, disk |-> d,
   res |-> Result("clear", "success", "", Absent, "")]

\* clear_memory(): the cache is rebound to {} first; an existing file is
\* overwritten with {}; a missing file is left missing
ClearOp(d, io) ==
  IF d.state = "missing"
    THEN [cache |-> EmptyCache, disk |-> d,
          res |-> Result("clear", "success", "", Absent, "")]
  ELSE CASE io = "ok" ->
              [cache |-> EmptyCache, disk |-> DiskOk(EmptyMap),
               res |-> Result("clear", "success", "", Absent, "")]
         [] io = "fail_early" ->
              [cache |-> EmptyCache, disk |-> d,
               res |-> Result("clear", "error", "", Absent, "")]
         [] OTHER ->
              [cache |-> EmptyCache, disk |-> DiskCorrupt,
               res |-> Result("clear", "error", "", Absent, "")]

(***************************************************************************)
(* Interaction Gate (tools/interaction.py)                                 *)
(***************************************************************************)
\* lines the operator can type at a prompt, and str.strip() of each
RawLines == {"", "3", " x "}

Strip(s) ==
  CASE s = " x " -> "x"
    [] s = " "   -> ""
    [] s = " Y " -> "Y"
    [] OTHER     -> s

\* texts int() / float() accept
IntTexts == {"0", "3", "5"}

\* truth value of a Python object as tested by "and default"
Truthy(val) ==
  /\ val.t \notin {"none", "absent"}
  /\ val.v # ""
  /\ ~(val.t = "int" /\ val.v = "0")
  /\ ~(val.t = "bool" /\ val.v = "False")

\* a get_user_input that returns the first entry without the options test
AskOnce(lines, default, options) ==
  IF lines = <<>>
    THEN [done |-> FALSE, value |-> Absent, rest |-> lines, prompts |-> 0]
  ELSE [done |-> TRUE,
        value |-> IF Strip(Head(lines)) = "" /\ Truthy(default)
                    THEN default ELSE PyStr(Strip(Head(lines))),
        rest |-> Tail(lines), prompts |-> 1]

\* get_user_input(prompt, default, options): one prompt per loop turn; an
\* empty line returns the default object when it is truthy; a line outside
\* a non-empty options list repeats the prompt; done is FALSE when the
\* operator's lines run out before the loop returns
RECURSIVE get_user_input(_, _, _)
get_user_input(lines, default, options) ==
  IF lines = <<>>
    THEN [done |-> FALSE, value |-> Absent, rest |-> lines, prompts |-> 0]
  ELSE LET user_input == Strip(Head(lines))
       IN IF user_input = "" /\ Truthy(default)
            THEN [done |-> TRUE, value |-> default, rest |-> Tail(lines),
                  prompts |-> 1]
          ELSE IF options # {} /\ user_input \notin options
            THEN LET r == get_user_input(Tail(lines), default, options)
                 IN [r EXCEPT !.prompts = @ + 1]
          ELSE [done |-> TRUE, value |-> PyStr(user_input),
                rest |-> Tail(lines), prompts |-> 1]

\* the type coercion of ensure_required_inputs: int()/float() under a bare
\* except that keeps the raw value, bool by membership of the lowered text
Coerce(type, val) ==
  CASE type = "int" ->
         IF val.t = "str" /\ val.v \in IntTexts THEN PyInt(val.v) ELSE val
    [] type = "float" ->
         IF val.v \in IntTexts THEN [t |-> "float", v |-> val.v] ELSE val
    [] type = "bool" ->
         PyBool(IF val.v \in {"true", "yes", "y", "1"} THEN "True" ELSE "False")
    [] OTHER -> val

\* whether the coercion raises to the caller: the bool branch calls
\* user_input.lower() outside any try, which only a str has
CoerceRaises(type, val) == type = "bool" /\ val.t # "str"

\* the required_inputs specification handed to ensure_required_inputs, in
\* dict order
RequiredInputs ==
  << [name |-> "leads_count", default |-> PyStr("5"), options |-> {},
      type |-> "int"],
     [name |-> "tone", default |-> PyNone, options |-> {"x", "3"},
      type |-> "str"] >>

NoInputs == [k \in Keys |-> Absent]
NoSources == [k \in Keys |-> ""]

\* ensure_required_inputs(required_inputs) from the i-th name on: recall(name); on a hit the
\* remembered value is used, on a miss the operator is prompted, the answer
\* coerced, stored in the result and handed to remember (whose result is
\* ignored)
RECURSIVE EnsureInputs(_, _, _, _, _, _, _)
EnsureInputs(required_inputs, i, c, d, lines, ios, acc) ==
  IF i > Len(required_inputs)
    THEN [cache |-> c, disk |-> d, rest |-> lines, done |-> TRUE,
          inputs |-> acc.inputs, prompts |-> acc.prompts,
          sources |-> acc.sources, raised |-> FALSE]
  ELSE LET p == required_inputs[i]
           r == RecallOp(c, d, p.name, PyNone)
       IN IF r.res.status = "success"
            THEN EnsureInputs(required_inputs, i + 1, r.cache, d, lines, ios,
                   [inputs |-> [acc.inputs EXCEPT ![p.name] = r.res.value],
                    prompts |-> acc.prompts,
                    sources |-> [acc.sources EXCEPT ![p.name] = r.res.source]])
          ELSE LET g == get_user_input(lines, p.default, p.options)
                   v == Coerce(p.type, g.value)
                   m == RememberOp(r.cache, d, p.name, v, ios[p.name])
               IN IF ~g.done
                    THEN [cache |-> c, disk |-> d, rest |-> lines,
                          done |-> FALSE, inputs |-> acc.inputs,
                          prompts |-> acc.prompts, sources |-> acc.sources,
                          raised |-> FALSE]
                  ELSE IF CoerceRaises(p.type, g.value)
                    THEN [cache |-> r.cache, disk |-> d, rest |-> g.rest,
                          done |-> TRUE, inputs |-> acc.inputs,
                          prompts |-> acc.prompts + g.prompts,
                          sources |-> [acc.sources EXCEPT ![p.name] = "prompt"],
                          raised |-> TRUE]
                  ELSE EnsureInputs(required_inputs, i + 1, m.cache, m.disk, g.rest,
                         ios,
                         [inputs |-> [acc.inputs EXCEPT ![p.name] = v],
                          prompts |-> acc.prompts + g.prompts,
                          sources |-> [acc.sources EXCEPT ![p.name] = "prompt"]])

\* the same for the specification RequiredInputs
EnsureFrom(i, c, d, lines, ios, acc) ==
  EnsureInputs(RequiredInputs, i, c, d, lines, ios, acc)

ensure_required_inputs(c, d, lines, ios) ==
  EnsureFrom(1, c, d, lines, ios,
             [inputs |-> NoInputs, prompts |-> 0, sources |-> NoSources])

\* line sequences of length at most MaxLines
RECURSIVE LinesUpTo(_)
LinesUpTo(n) ==
  IF n = 0 THEN {<<>>}
  ELSE LinesUpTo(n - 1) \cup
       {Append(l, x) : l \in {q \in LinesUpTo(n - 1) : Len(q) = n - 1},
                       x \in RawLines}

(***************************************************************************)
(* Text (tools/get_leads.py compares lowered texts and tests substrings)   *)
(***************************************************************************)
\* a text is the sequence of its characters
LowerChar(c) ==
  CASE c = "A" -> "a"
    [] c = "B" -> "b"
    [] c = "C" -> "c"
    [] c = "D" -> "d"
    [] c = "E" -> "e"
    [] c = "F" -> "f"
    [] c = "G" -> "g"
    [] c = "H" -> "h"
    [] c = "I" -> "i"
    [] c = "J" -> "j"
    [] c = "K" -> "k"
    [] c = "L" -> "l"
    [] c = "M" -> "m"
    [] c = "N" -> "n"
    [] c = "O" -> "o"
    [] c = "P" -> "p"
    [] c = "Q" -> "q"
    [] c = "R" -> "r"
    [] c = "S" -> "s"
    [] c = "T" -> "t"
    [] c = "U" -> "u"
    [] c = "V" -> "v"
    [] c = "W" -> "w"
    [] c = "X" -> "x"
    [] c = "Y" -> "y"
    [] c = "Z" -> "z"
    [] OTHER -> c

\* str.lower()
Lower(s) == [i \in 1..Len(s) |-> LowerChar(s[i])]

\* f in s
Contains(s, f) ==
  \E i \in 0..(Len(s) - Len(f)) : SubSeq(s, i + 1, i + Len(f)) = f

Min(a, b) == IF a <= b THEN a ELSE b

\* what the operator can type at the prompt of confirm_action
ConfirmEntries == {"", " ", "n", "no", "Y", " Y ", "yes", "YES", "True", "1"}

\* the characters of an entry
Chars(s) ==
  CASE s = "n"    -> <<"n">>
    [] s = "no"   -> <<"n", "o">>
    [] s = "Y"    -> <<"Y">>
    [] s = "yes"  -> <<"y", "e", "s">>
    [] s = "YES"  -> <<"Y", "E", "S">>
    [] s = "True" -> <<"T", "r", "u", "e">>
    [] s = "1"    -> <<"1">>
    [] s = "3"    -> <<"3">>
    [] s = "x"    -> <<"x">>
    [] OTHER      -> <<>>

\* the tuple ("yes", "y", "true", "1") of confirm_action
YesTexts ==
  {<<"y", "e", "s">>, <<"y">>, <<"t", "r", "u", "e">>, <<"1">>}

\* a confirm_action that compares the response as typed
ConfirmAsTyped(lines, default) ==
  LET g == get_user_input(lines, PyNone, {})
  IN [done |-> g.done,
      value |-> IF ~g.done THEN Absent
                ELSE IF g.value.v = "" THEN default
                ELSE PyBool(IF Chars(g.value.v) \in YesTexts THEN "True"
                            ELSE "False")]

\* confirm_action(action_description, default=False): get_user_input with
\* the prompt alone; an empty response returns default, any other one
\* whether its lowered text is in the tuple
confirm_action(lines, default) ==
  LET g == get_user_input(lines, PyNone, {})
  IN [done |-> g.done,
      value |-> IF ~g.done THEN Absent
                ELSE IF g.value.v = "" THEN default
                ELSE PyBool(IF Lower(Chars(g.value.v)) \in YesTexts
                              THEN "True" ELSE "False")]

(***************************************************************************)
(* Leads, providers, ledger                                                *)
(***************************************************************************)
\* a lead dictionary, reduced to its name and to the three fields the local
\* adapter filters on
Lead(name, title, industry, location) ==
  [name |-> name, title |-> title, industry |-> industry, location |-> location]

\* the rows create_sample_leads_file writes
SampleLeads ==
  << Lead("Alice Smith", <<"F", "o", "u", "n", "d", "e", "r">>,
          <<"A", "I", " ", "S", "a", "a", "S">>,
          <<"U", "n", "i", "t", "e", "d", " ", "S", "t", "a", "t", "e", "s">>),
     Lead("Bob Johnson", <<"C", "T", "O">>,
          <<"A", "I", " ", "S", "a", "a", "S">>,
          <<"U", "n", "i", "t", "e", "d", " ", "S", "t", "a", "t", "e", "s">>),
     Lead("Carol Williams", <<"C", "E", "O">>,
          <<"A", "I", " ", "S", "a", "a", "S">>,
          <<"U", "n", "i", "t", "e", "d", " ", "K", "i", "n", "g", "d", "o", "m">>),
     Lead("David Brown", <<"F", "o", "u", "n", "d", "e", "r">>,
          <<"A", "I", " ", "S", "a", "a", "S">>,
          <<"G", "e", "r", "m", "a", "n", "y">>),
     Lead("Emma Davis", <<"C", "E", "O">>,
          <<"A", "I", " ", "S", "a", "a", "S">>,
          <<"F", "r", "a", "n", "c", "e">>),
     Lead("Frank Miller", <<"C", "T", "O">>,
          <<"A", "I", " ", "S", "a", "a", "S">>,
          <<"C", "a", "n", "a", "d", "a">>),
     Lead("Grace Wilson", <<"F", "o", "u", "n", "d", "e", "r">>,
          <<"A", "I", " ", "S", "a", "a", "S">>,
          <<"A", "u", "s", "t", "r", "a", "l", "i", "a">>),
     Lead("Henry Taylor", <<"C", "E", "O">>,
          <<"A", "I", " ", "S", "a", "a", "S">>,
          <<"S", "i", "n", "g", "a", "p", "o", "r", "e">>),
     Lead("Irene Clark", <<"F", "o", "u", "n", "d", "e", "r">>,
          <<"A", "I", " ", "S", "a", "a", "S">>,
          <<"N", "e", "t", "h", "e", "r", "l", "a", "n", "d", "s">>),
     Lead("Jack Roberts", <<"C", "T", "O">>,
          <<"A", "I", " ", "S", "a", "a", "S">>,
          <<"S", "w", "e", "d", "e", "n">>) >>

\* data/leads.csv
LedgerMissing == [exists |-> FALSE, rows |-> <<>>]
Ledger(rows) == [exists |-> TRUE, rows |-> rows]

\* people Apollo has for a search, best match first; a search that has
\* avail matches and asks for count per page is answered with the first
\* Min(count, avail) of them
ApolloPeople ==
  << [name |-> "Pat Lee", title |-> <<"C", "T", "O">>, contact_locations |-> <<<<"B", "e", "r", "l", "i", "n">>>>],
     [name |-> "", title |-> <<>>, contact_locations |-> <<>>] >>

\* items of the dataset of an Apify actor run
ApifyItems ==
  << [name |-> "Ann Poe", title |-> <<"F", "o", "u", "n", "d", "e", "r">>, org_industry |-> <<>>,
      city |-> <<"O", "s", "l", "o">>, state |-> <<>>, country |-> <<"N", "o", "r", "w", "a", "y">>],
     [name |-> "", title |-> <<>>, org_industry |-> <<"F", "i", "n", "t", "e", "c", "h">>,
      city |-> <<>>, state |-> <<>>, country |-> <<>>] >>

\* result dictionaries of the adapters and of get_leads: {"status":
\* "success", "count", "leads"} or {"error": message}
Success(leads) == [status |-> "success", error |-> "", leads |-> leads]
Failure(message) == [status |-> "", error |-> message, leads |-> <<>>]
NoResult == [status |-> "", error |-> "", leads |-> <<>>]

\* what the provider serves for a page size
Served(count, avail) == IF count < 0 THEN 0 ELSE Min(count, avail)

\* a save_leads_to_csv that opens the file in mode 'w' whether or not it
\* exists
SaveOverwrites(ledger, leads, ok) ==
  IF ~ok THEN ledger ELSE [exists |-> TRUE, rows |-> leads]

\* save_leads_to_csv(leads): append to an existing file, else create it with
\* its header; every exception is caught and printed
save_leads_to_csv(ledger, leads, ok) ==
  IF ~ok THEN ledger
  ELSE IF ledger.exists THEN Ledger(ledger.rows \o leads)
  ELSE Ledger(leads)

(***************************************************************************)
(* Adapters (tools/get_leads.py)                                           *)
(***************************************************************************)
\* what one Apollo request can meet: no APOLLO_API_KEY, an exception of the
\* HTTP call or of the JSON decoding, a reply without "people", or a reply
\* with the people of a search that has avail matches
ApolloOutcomes ==
  {[kind |-> k, avail |-> 0] : k \in {"nokey", "transport", "provider"}}
    \cup {[kind |-> "people", avail |-> a] : a \in 0..Len(ApolloPeople)}

\* the lead built from one person: the industry is the one asked for, the
\* location the person's first contact location, else the one asked for
ApolloLead(person, q) ==
  Lead(person.name, person.title, q.industry,
       IF person.contact_locations # <<>> THEN person.contact_locations[1]
       ELSE q.location)

\* an adapter whose HTTP call is outside the try block: the exception leaves
\* the adapter
ApolloUnguarded(q, count, out) ==
  CASE out.kind = "nokey" ->
         Failure("Apollo API key not found in environment variables")
    [] out.kind = "transport" ->
         [status |-> "raised", error |-> "Apollo error", leads |-> <<>>]
    [] out.kind = "provider" -> Failure("Apollo API error")
    [] OTHER ->
         Success([i \in 1..Served(count, out.avail) |->
                    ApolloLead(ApolloPeople[i], q)])

\* get_leads_from_apollo: the whole body is under try/except Exception
get_leads_from_apollo(q, count, out) ==
  CASE out.kind = "nokey" ->
         Failure("Apollo API key not found in environment variables")
    [] out.kind = "transport" -> Failure("Apollo error")
    [] out.kind = "provider" -> Failure("Apollo API error")
    [] OTHER ->
         Success([i \in 1..Served(count, out.avail) |->
                    ApolloLead(ApolloPeople[i], q)])

\* the polling loop of get_leads_from_apify gives up after max_attempts polls
max_attempts == 30

\* what one Apify attempt can meet: no APIFY_API_KEY, an exception, a run
\* reply without "id", or a run that shows the terminal status at its
\* finish-th poll and whose dataset holds the items of avail matches: runs
\* that succeed at the first poll and at the last poll of the budget, runs
\* that fail at the first, the second and the last poll, and a run that is
\* still running after the budget
ApifyOutcomes ==
  {[kind |-> k, finish |-> 1, terminal |-> "", avail |-> 0] :
     k \in {"nokey", "transport", "provider"}}
    \cup {[kind |-> "run", finish |-> 1, terminal |-> "SUCCEEDED", avail |-> a] :
            a \in 0..Len(ApifyItems)}
    \cup {[kind |-> "run", finish |-> max_attempts, terminal |-> "SUCCEEDED",
            avail |-> Len(ApifyItems)]}
    \cup {[kind |-> "run", finish |-> 1, terminal |-> "FAILED", avail |-> 0],
          [kind |-> "run", finish |-> max_attempts, terminal |-> "ABORTED",
           avail |-> 0],
          [kind |-> "run", finish |-> 2, terminal |-> "TIMED-OUT", avail |-> 0]}
    \cup {[kind |-> "run", finish |-> max_attempts + 1, terminal |-> "SUCCEEDED",
            avail |-> 0]}

\* ", ".join(filter(None, parts))
RECURSIVE JoinNonEmpty(_)
JoinNonEmpty(parts) ==
  IF parts = <<>> THEN <<>>
  ELSE LET rest == JoinNonEmpty(Tail(parts))
       IN IF Head(parts) = <<>> THEN rest
          ELSE IF rest = <<>> THEN Head(parts)
          ELSE Head(parts) \o <<",", " ">> \o rest

\* the lead built from one dataset item
ApifyLead(item, q) ==
  Lead(item.name, item.title,
       IF item.org_industry # <<>> THEN item.org_industry ELSE q.industry,
       IF JoinNonEmpty(<<item.city, item.state, item.country>>) # <<>>
         THEN JoinNonEmpty(<<item.city, item.state, item.country>>)
         ELSE q.location)

\* the status the n-th poll of the run reports
StatusAtPoll(out, n) == IF n >= out.finish THEN out.terminal ELSE "RUNNING"

FailedStatuses == {"FAILED", "ABORTED", "TIMED-OUT"}

\* the polling loop from attempts on, with the budget of the while test:
\* attempts counts the polls that did not end the run; the loop is left by
\* break on SUCCEEDED, by return on a failed status, or when attempts
\* reaches the budget; polls counts the status requests made
RECURSIVE PollLoop(_, _, _)
PollLoop(attempts, out, budget) ==
  IF ~(attempts < budget)
    THEN [polls |-> attempts, attempts |-> attempts, status |-> "RUNNING"]
  ELSE LET status == StatusAtPoll(out, attempts + 1)
       IN IF status = "SUCCEEDED" \/ status \in FailedStatuses
            THEN [polls |-> attempts + 1, attempts |-> attempts,
                  status |-> status]
          ELSE PollLoop(attempts + 1, out, budget)

\* a loop that tests attempts <= max_attempts
ApifyPollOneMore(out) == PollLoop(0, out, max_attempts + 1)

\* attempts = 0; while attempts < max_attempts: ...
ApifyPoll(out) == PollLoop(0, out, max_attempts)

\* the polling loop of every run there is
ApifyPolls == [out \in ApifyOutcomes |-> ApifyPoll(out)]

\* what an attempt did besides its result: whether a run was submitted,
\* the polls made, the status of the last poll, whether the dataset was
\* fetched
NoRun == [submitted |-> FALSE, polls |-> 0, status |-> "", fetched |-> FALSE]

\* an adapter without the test of attempts after the loop
ApifyFetchAfterLoop(q, count, out) ==
  IF out.kind # "run"
    THEN [res |-> Failure("Apify error"), run |-> NoRun]
  ELSE LET poll == ApifyPolls[out]
       IN IF poll.status \in FailedStatuses
            THEN [res |-> Failure("Apify run failed with status"),
                  run |-> [submitted |-> TRUE, polls |-> poll.polls,
                           status |-> poll.status, fetched |-> FALSE]]
          ELSE [res |-> Success([i \in 1..Served(count, out.avail) |->
                                   ApifyLead(ApifyItems[i], q)]),
                run |-> [submitted |-> TRUE, polls |-> poll.polls,
                         status |-> poll.status, fetched |-> TRUE]]

\* the body of get_leads_from_apify, all of it under try/except Exception:
\* key, POST of the run, polling loop, GET of the dataset items
ApifyRun(q, count, out) ==
  CASE out.kind = "nokey" ->
         [res |-> Failure("Apify API key not found in environment variables"),
          run |-> NoRun]
    [] out.kind = "transport" ->
         [res |-> Failure("Apify error"), run |-> NoRun]
    [] out.kind = "provider" ->
         [res |-> Failure("Apify error: no run id"), run |-> NoRun]
    [] OTHER ->
         LET poll == ApifyPolls[out]
             ran(fetched) == [submitted |-> TRUE, polls |-> poll.polls,
                              status |-> poll.status, fetched |-> fetched]
         IN IF poll.status \in FailedStatuses
              THEN [res |-> Failure("Apify run failed with status"),
                    run |-> ran(FALSE)]
            ELSE IF poll.attempts >= max_attempts
              THEN [res |-> Failure("Apify run timed out"), run |-> ran(FALSE)]
            ELSE [res |-> Success([i \in 1..Served(count, out.avail) |->
                                     ApifyLead(ApifyItems[i], q)]),
                  run |-> ran(TRUE)]

\* what get_leads_from_apify returns
get_leads_from_apify(q, count, out) == ApifyRun(q, count, out).res

\* the test of one filter of get_leads_from_csv on one field of a row: a
\* blank filter keeps every row, else the lowered field equals or contains
\* the lowered filter
FieldMatches(filter, field) ==
  \/ filter = <<>>
  \/ Lower(field) = Lower(filter)
  \/ Contains(Lower(field), Lower(filter))

RowMatches(row, q) ==
  /\ FieldMatches(q.industry, row.industry)
  /\ FieldMatches(q.role, row.title)
  /\ FieldMatches(q.location, row.location)

\* the reading loop of get_leads_from_csv from row i on: a matching row is
\* appended first, then the loop breaks when len(leads) >= count
RECURSIVE ScanRows(_, _, _, _, _)
ScanRows(rows, i, q, count, leads) ==
  IF i > Len(rows) THEN leads
  ELSE IF ~RowMatches(rows[i], q) THEN ScanRows(rows, i + 1, q, count, leads)
  ELSE IF Len(leads) + 1 >= count THEN Append(leads, rows[i])
  ELSE ScanRows(rows, i + 1, q, count, Append(leads, rows[i]))

\* get_leads_from_csv: a missing file is first created with the sample
\* rows; an exception of the reading gives {"error": "CSV error: ..."}
get_leads_from_csv(ledger, q, count, readable) ==
  LET file == IF ledger.exists THEN ledger ELSE Ledger(SampleLeads)
  IN IF ~readable THEN [res |-> Failure("CSV error"), ledger |-> file]
     ELSE [res |-> Success(ScanRows(file.rows, 1, q, count, <<>>)),
           ledger |-> file]

\* os.getenv(name, default) of an environment entry
Getenv(entry, default) == IF entry.set THEN entry.value ELSE default

\* os.getenv("TEST_MODE", "false").lower() == "true"
IsTestMode(entry) == Lower(Getenv(entry, <<"f", "a", "l", "s", "e">>)) = <<"t", "r", "u", "e">>

\* a get_leads that has no test-mode branch
FirstTierLive(entry) == "primary"

\* the adapter get_leads calls first
FirstTier(entry) == IF IsTestMode(entry) THEN "local" ELSE "primary"

\* a test of the status alone
StatusIsSuccess(res) == res.status = "success"

\* result.get("status") == "success" and result.get("leads")
TierSucceeded(res) == res.status = "success" /\ res.leads # <<>>

\* a chain that calls the next adapter whatever the first one returned
AlwaysSecondary(res) == "secondary"

\* where get_leads goes after the Apollo attempt
AfterPrimary(res) == IF TierSucceeded(res) THEN "done" ELSE "secondary"

\* int(x) of a remembered or typed count: the value, or a ValueError
IntAccepts(val) == val.t = "int" \/ (val.t = "str" /\ val.v \in IntTexts)

IntOf(val) ==
  CASE val.v = "0" -> 0
    [] val.v = "3" -> 3
    [] val.v = "5" -> 5

(***************************************************************************)
(* The web application: Supabase tables and the API route handlers         *)
(***************************************************************************)
Null == "null"                \* JavaScript null, SQL NULL
Undefined == "undefined"      \* JavaScript undefined
Now == "now"                  \* new Date().toISOString()
Users == {"u1", "u2"}
NoSession == "none"           \* getSession() gives { session: null }
Sessions == Users \cup {NoSession}

\* the ids the database generates for the rows of a table, in insert order
AgentIds == <<"a1", "a2">>
TaskIds == <<"t1", "t2">>
EmailIds == <<"e1", "e2">>
LeadIds == <<"l1", "l2", "l3">>
MessageIds == <<"m1", "m2", "m3", "m4">>
NewId(rows, ids) == IF Len(rows) < Len(ids) THEN ids[Len(rows) + 1] ELSE "full"

\* the tables when the first request arrives: one agent run and one lead of
\* each user exist, no agent, task, email or chat message has been written
SeedDb ==
  [agents |-> <<>>, tasks |-> <<>>,
   agent_runs |-> <<[id |-> "r1", user_id |-> "u1"]>>,
   leads |-> <<[id |-> "l1", user_id |-> "u1", agent_run_id |-> "r1",
                full_name |-> "Kim Ray"],
               [id |-> "l2", user_id |-> "u2", agent_run_id |-> "r2",
                full_name |-> "Lou Fox"]>>,
   emails |-> <<>>, chat_messages |-> <<>>]

\* what a handler did: the tables after it, the response and the queries
\* it issued as <<table, operation>>
Reply(d, status, data, ops) ==
  [db |-> d, status |-> status, data |-> data, ops |-> ops]

\* the row of an id (ids are unique in a table), NoRow when there is none
NoRow == [id |-> Null]
RowOf(rows, id) ==
  LET hit == {i \in 1..Len(rows) : rows[i].id = id}
  IN IF hit = {} THEN NoRow ELSE rows[CHOOSE i \in hit : TRUE]

\* .select('id').eq('id', id).eq('user_id', userId).single()
OwnRow(rows, id, userId) ==
  IF RowOf(rows, id) # NoRow /\ RowOf(rows, id).user_id = userId
    THEN [id |-> id] ELSE NoRow

\* .update(updateData).eq('id', id)
UpdateRow(rows, id, row) ==
  [i \in 1..Len(rows) |-> IF rows[i].id = id THEN row ELSE rows[i]]

\* GET /api/emails
GetEmails(d, session, status, leadId, fault) ==
  IF session = NoSession THEN Reply(d, 401, Null, {})
  ELSE IF fault THEN Reply(d, 500, Null, {<<"emails", "select">>})
  ELSE LET Mine(r) == /\ r.user_id = session
                      /\ status # "" => r.status = status
                      /\ leadId # "" => r.lead_id = leadId
       IN Reply(d, 200, SelectSeq(d.emails, Mine), {<<"emails", "select">>})

\* a PUT /api/emails that updates the row of the id without the select
PutEmailUnverified(d, session, id, subject, emailBody, status, fault) ==
  LET Update(r) ==
        [r EXCEPT !.subject = IF subject # "" THEN subject ELSE @,
                  !.body = IF emailBody # "" THEN emailBody ELSE @,
                  !.status = IF status # "" THEN status ELSE @,
                  !.sent_at = IF status = "sent" THEN Now ELSE @]
      updated == UpdateRow(d.emails, id, Update(RowOf(d.emails, id)))
  IN IF session = NoSession THEN Reply(d, 401, Null, {})
     ELSE IF RowOf(d.emails, id) = NoRow
       THEN Reply(d, 404, Null, {<<"emails", "update">>})
     ELSE Reply([d EXCEPT !.emails = updated], 200, RowOf(updated, id),
                {<<"emails", "update">>})

\* a PUT /api/emails that leaves sent_at alone
PutEmailNoStamp(d, session, id, subject, emailBody, status, fault) ==
  LET existingEmail == OwnRow(d.emails, id, session)
      Update(r) ==
        [r EXCEPT !.subject = IF subject # "" THEN subject ELSE @,
                  !.body = IF emailBody # "" THEN emailBody ELSE @,
                  !.status = IF status # "" THEN status ELSE @]
      updated == UpdateRow(d.emails, id, Update(RowOf(d.emails, id)))
  IN IF session = NoSession THEN Reply(d, 401, Null, {})
     ELSE IF id = "" THEN Reply(d, 400, Null, {})
     ELSE IF existingEmail = NoRow
       THEN Reply(d, 404, Null, {<<"emails", "select">>})
     ELSE Reply([d EXCEPT !.emails = updated], 200, RowOf(updated, id),
                {<<"emails", "select">>, <<"emails", "update">>})

\* PUT /api/emails: 401 without a session, 400 without an id, 404 unless a
\* row has the id and the session's user_id; then update(updateData) on the
\* row of that id, with sent_at, opened_at or replied_at stamped for the
\* status 'sent', 'opened' or 'replied'
PutEmail(d, session, id, subject, emailBody, status, fault) ==
  LET existingEmail == OwnRow(d.emails, id, session)
      Update(r) ==
        [r EXCEPT !.subject = IF subject # "" THEN subject ELSE @,
                  !.body = IF emailBody # "" THEN emailBody ELSE @,
                  !.status = IF status # "" THEN status ELSE @,
                  !.sent_at = IF status = "sent" THEN Now ELSE @,
                  !.opened_at = IF status = "opened" THEN Now ELSE @,
                  !.replied_at = IF status = "replied" THEN Now ELSE @]
      updated == UpdateRow(d.emails, id, Update(RowOf(d.emails, id)))
  IN IF session = NoSession THEN Reply(d, 401, Null, {})
     ELSE IF id = "" THEN Reply(d, 400, Null, {})
     ELSE IF existingEmail = NoRow
       THEN Reply(d, 404, Null, {<<"emails", "select">>})
     ELSE IF fault
       THEN Reply(d, 500, Null, {<<"emails", "select">>, <<"emails", "update">>})
     ELSE Reply([d EXCEPT !.emails = updated], 200, RowOf(updated, id),
                {<<"emails", "select">>, <<"emails", "update">>})

\* POST /api/emails: 401 without a session, 400 without lead_id, subject or
\* body, 404 unless the lead is the user's; the row is 'sent' with sent_at
\* for the action 'send' and 'draft' with a null sent_at otherwise
PostEmail(d, session, lead_id, subject, emailBody, action, fault) ==
  LET lead == OwnRow(d.leads, lead_id, session)
      status == IF action = "send" THEN "sent" ELSE "draft"
      sentAt == IF action = "send" THEN Now ELSE Null
      email == [id |-> NewId(d.emails, EmailIds), user_id |-> session,
                lead_id |-> lead_id, subject |-> subject, body |-> emailBody,
                status |-> status, sent_at |-> sentAt, opened_at |-> Null,
                replied_at |-> Null]
  IN IF session = NoSession THEN Reply(d, 401, Null, {})
     ELSE IF lead_id = "" \/ subject = "" \/ emailBody = ""
       THEN Reply(d, 400, Null, {})
     ELSE IF lead = NoRow THEN Reply(d, 404, Null, {<<"leads", "select">>})
     ELSE IF fault
       THEN Reply(d, 500, Null, {<<"leads", "select">>, <<"emails", "insert">>})
     ELSE Reply([d EXCEPT !.emails = Append(@, email)], 200, email,
                {<<"leads", "select">>, <<"emails", "insert">>})

\* status of Database.public.Tables.agents.Row
AgentStatuses == {"pending", "running", "completed", "failed"}

\* POST /api/agent/run: 401 without a session; inserts the agents row with
\* status 'active' and the form values as inputs, then the 'initialize'
\* task, and answers { success, data: { agent_id, status: 'active' } }
PostAgentRun(d, session, body, fault) ==
  LET agentRun == [id |-> NewId(d.agents, AgentIds), user_id |-> session,
                   status |-> "active", inputs |-> body]
      task == [id |-> NewId(d.tasks, TaskIds), agent_id |-> agentRun.id,
               task_type |-> "initialize", status |-> "done"]
  IN IF session = NoSession THEN Reply(d, 401, Null, {})
     ELSE IF fault THEN Reply(d, 500, Null, {<<"agents", "insert">>})
     ELSE Reply([d EXCEPT !.agents = Append(@, agentRun),
                          !.tasks = Append(@, task)],
                200, [agent_id |-> agentRun.id, status |-> "active"],
                {<<"agents", "insert">>, <<"tasks", "insert">>})

\* the rows in the opposite order: order('created_at', { ascending: false })
Newest(rows) == [i \in 1..Len(rows) |-> rows[Len(rows) + 1 - i]]

\* GET agent runs: 401 without a session; the user's agents rows, newest
\* first, each with counts read from leads and emails
GetAgentRuns(d, session, status, fault) ==
  LET Mine(r) == r.user_id = session /\ (status # "" => r.status = status)
      runs == SelectSeq(Newest(d.agents), Mine)
  IN IF session = NoSession THEN Reply(d, 401, Null, {})
     ELSE IF fault THEN Reply(d, 500, Null, {<<"agents", "select">>})
     ELSE Reply(d, 200, runs,
                {<<"agents", "select">>}
                  \cup (IF runs = <<>> THEN {}
                        ELSE {<<"leads", "select">>, <<"emails", "select">>}))

\* GET /api/leads
GetLeads(d, session, agentRunId, fault) ==
  LET Mine(r) == /\ r.user_id = session
                 /\ agentRunId # "" => r.agent_run_id = agentRunId
  IN IF session = NoSession THEN Reply(d, 401, Null, {})
     ELSE IF fault THEN Reply(d, 500, Null, {<<"leads", "select">>})
     ELSE Reply(d, 200, SelectSeq(d.leads, Mine), {<<"leads", "select">>})

\* POST /api/leads: 401 without a session, 400 without a required field,
\* 404 unless agent_runs has the run for the user; then inserts the lead
PostLead(d, session, agent_run_id, full_name, fault) ==
  LET agentRun == OwnRow(d.agent_runs, agent_run_id, session)
      lead == [id |-> NewId(d.leads, LeadIds), user_id |-> session,
               agent_run_id |-> agent_run_id, full_name |-> full_name]
  IN IF session = NoSession THEN Reply(d, 401, Null, {})
     ELSE IF agent_run_id = "" \/ full_name = "" THEN Reply(d, 400, Null, {})
     ELSE IF agentRun = NoRow
       THEN Reply(d, 404, Null, {<<"agent_runs", "select">>})
     ELSE IF fault
       THEN Reply(d, 500, Null,
                  {<<"agent_runs", "select">>, <<"leads", "insert">>})
     ELSE Reply([d EXCEPT !.leads = Append(@, lead)], 200, lead,
                {<<"agent_runs", "select">>, <<"leads", "insert">>})

\* GET chat messages: 401 without a session; the user's messages of the
\* run asked for, without one of the user's latest agent run
GetChat(d, session, agentRunId, fault) ==
  LET MyRun(r) == r.user_id = session
      latest == SelectSeq(Newest(d.agent_runs), MyRun)
      run == IF agentRunId # "" THEN agentRunId
             ELSE IF latest # <<>> THEN latest[1].id ELSE ""
      Mine(r) == r.user_id = session /\ (run # "" => r.agent_run_id = run)
      ops == {<<"chat_messages", "select">>}
               \cup (IF agentRunId = "" THEN {<<"agent_runs", "select">>}
                     ELSE {})
  IN IF session = NoSession THEN Reply(d, 401, Null, {})
     ELSE IF fault THEN Reply(d, 500, Null, ops)
     ELSE Reply(d, 200, SelectSeq(d.chat_messages, Mine), ops)

\* a POST chat messages that never looks at the session
PostChatNoSession(d, session, content, agent_run_id, fault) ==
  LET userMessage == [id |-> NewId(d.chat_messages, MessageIds),
                      user_id |-> session, agent_run_id |-> agent_run_id,
                      role |-> "user", content |-> content]
  IN IF content = "" THEN Reply(d, 400, Null, {})
     ELSE Reply([d EXCEPT !.chat_messages = Append(@, userMessage)], 200,
                [user_message |-> userMessage, ai_message |-> Null],
                {<<"chat_messages", "insert">>})

\* POST chat messages: 401 without a session, 400 without content; inserts
\* the user's message and then the assistant's canned answer
PostChat(d, session, content, agent_run_id, fault) ==
  LET userMessage == [id |-> NewId(d.chat_messages, MessageIds),
                      user_id |-> session, agent_run_id |-> agent_run_id,
                      role |-> "user", content |-> content]
      aiMessage == [id |-> NewId(Append(d.chat_messages, userMessage),
                                 MessageIds),
                    user_id |-> session, agent_run_id |-> agent_run_id,
                    role |-> "assistant", content |-> "I received your message"]
  IN IF session = NoSession THEN Reply(d, 401, Null, {})
     ELSE IF content = "" THEN Reply(d, 400, Null, {})
     ELSE IF fault THEN Reply(d, 500, Null, {<<"chat_messages", "insert">>})
     ELSE Reply([d EXCEPT !.chat_messages =
                            Append(Append(@, userMessage), aiMessage)],
                200, [user_message |-> userMessage, ai_message |-> aiMessage],
                {<<"chat_messages", "insert">>})

\* no request yet
NoHttp ==
  [handler |-> "none", session |-> NoSession, body |-> Null, status |-> 0,
   data |-> Null, ops |-> {}, before |-> SeedDb]

\* the browser: the Run Agent modal, the chat interface, the route shown
\* and the page request under way
UiIdle ==
  [modal |-> [isOpen |-> FALSE, isLoading |-> FALSE, error |-> Null,
              pending |-> 0, outcome |-> "none", created |-> Null],
   route |-> [path |-> "/", agent_run_id |-> Null],
   chat |-> [agentRun |-> Null, messages |-> <<>>, input |-> "",
             isLoading |-> FALSE, inFlight |-> 0, content |-> Null,
             last |-> [event |-> "none", input |-> "", wasLoading |-> FALSE,
                       issued |-> FALSE, ok |-> FALSE]],
   visit |-> [path |-> Null, session |-> NoSession, hops |-> 0,
              from |-> Null, answer |-> Null, rendered |-> Null]]

\* data.data[name] in JavaScript: undefined for a property the object lacks
Field(data, name) == IF name \in DOMAIN data THEN data[name] ELSE Undefined

\* response.ok
Ok(status) == status \in 200..299

\* RootLayout: without a session redirect('/auth/login'), else the page
RootLayout(session) ==
  IF session = NoSession THEN [kind |-> "redirect", to |-> "/auth/login"]
  ELSE [kind |-> "render", to |-> Null]

\* DashboardLayout: without a session redirect('/auth/login'), else the page
DashboardLayout(session) ==
  IF session = NoSession THEN [kind |-> "redirect", to |-> "/auth/login"]
  ELSE [kind |-> "render", to |-> Null]

\* the pages under app/(dashboard), and every page: all of them are
\* rendered inside RootLayout
DashboardPages == {"/", "/emails"}
Pages == DashboardPages \cup {"/auth/login", "/auth/confirm-signup"}

\* what the server answers to the request of a page: the outermost layout
\* that redirects decides, else the page is rendered
PageResponse(path, session) ==
  IF RootLayout(session).kind = "redirect" THEN RootLayout(session)
  ELSE IF path \in DashboardPages THEN DashboardLayout(session)
  ELSE [kind |-> "render", to |-> Null]

\* redirects the browser follows for one navigation before it gives up
MaxHops == 3

\* fetches of the chat interface that can be in flight
MaxInFlight == 2

\* a handleSendMessage that does not look at isLoading
SendsWhileLoading(input, isLoading) == Strip(input) # ""

\* handleSendMessage goes on unless (!input.trim() || isLoading)
ShouldSend(input, isLoading) == Strip(input) # "" /\ ~isLoading

(***************************************************************************)
(* State                                                                   *)
(***************************************************************************)
VARIABLES
  cache,     \* _memory_store: key -> value, Absent when the key is not in it
  disk,      \* data/memory.json
  last,      \* the last call: operation, arguments, store before it, result
  settled,   \* history: the answers of an ensure_required_inputs call that
             \* are persisted, and whether the call has been repeated since
  pending,   \* history: a successful remember, the restart after it and the
             \* recall after that
  env,       \* the TEST_MODE entry of the process environment
  ledger,    \* data/leads.csv
  pc,        \* where the running get_leads call is: idle, primary,
             \* secondary, local, done
  req,       \* the query of the running call and its resolved count
  log,       \* the adapter attempts of the running call, in call order
  result,    \* what the call returns
  calls,     \* get_leads calls made
  asked,     \* the last call of the interaction gate made on its own: its
             \* arguments, what the operator typed and what it returned
  touched,   \* history of one process run: the keys the store has done
             \* disk I/O for, and what the last call added to it
  db,        \* the Supabase tables: table -> rows in insert order
  http,      \* the last API request: handler, session, body, the tables
             \* before it, the queries it issued and its response
  ui         \* the browser

memvars == <<cache, disk, last, settled, pending>>
leadsvars == <<env, ledger, pc, req, log, result, calls>>
webvars == <<db, http, ui>>
auxvars == <<asked, touched, webvars>>
vars == <<cache, disk, last, settled, pending,
          env, ledger, pc, req, log, result, calls, asked, touched,
          db, http, ui>>

EnvUnset == [set |-> FALSE, value |-> <<>>]
EnvValue(v) == [set |-> TRUE, value |-> v]
BlankQuery == [industry |-> <<>>, role |-> <<>>, location |-> <<>>]
NoReq == [query |-> BlankQuery, count |-> 0]

\* no get_leads call is made
LeadsQuiet ==
  /\ env = EnvUnset
  /\ ledger = LedgerMissing
  /\ pc = "idle"
  /\ req = NoReq
  /\ log = <<>>
  /\ result = NoResult
  /\ calls = 0

\* no call of the interaction gate on its own
NoAsk ==
  [op |-> "none", spec |-> <<>>, default |-> Absent, options |-> {},
   lines |-> <<>>, pre |-> EmptyCache, done |-> FALSE, value |-> Absent,
   prompts |-> 0, inputs |-> NoInputs, sources |-> NoSources,
   raised |-> FALSE]

\* no disk I/O in this process run yet
NoTouch ==
  [io |-> {}, known |-> {}, op |-> "none", key |-> "", didIo |-> FALSE,
   again |-> FALSE, recallAgain |-> FALSE]

\* no request has reached the web application
WebQuiet ==
  /\ db = SeedDb
  /\ http = NoHttp
  /\ ui = UiIdle

AuxQuiet ==
  /\ asked = NoAsk
  /\ touched = NoTouch
  /\ WebQuiet

NoSettled == [phase |-> "none", inputs |-> NoInputs]
NoPending == [phase |-> "none", key |-> "", value |-> Absent]

\* record of one call for `last'
Call(op, key, arg, io, res) ==
  [op |-> op, key |-> key, arg |-> arg, io |-> io,
   status |-> res.status, value |-> res.value, source |-> res.source,
   preCache |-> IF key \in Keys THEN cache[key] ELSE Absent,
   preDisk |-> IF key \in Keys THEN ReadDisk(disk)[key] ELSE NoEntry,
   inputs |-> NoInputs, prompts |-> 0, sources |-> NoSources]

NoCall == [op |-> "none", key |-> "", arg |-> Absent, io |-> "", status |-> "",
           value |-> Absent, source |-> "", preCache |-> Absent,
           preDisk |-> NoEntry, inputs |-> NoInputs, prompts |-> 0,
           sources |-> NoSources]

MemInit ==
  /\ cache = EmptyCache
  /\ disk = DiskMissing
  /\ last = NoCall
  /\ settled = NoSettled
  /\ pending = NoPending
  /\ LeadsQuiet
  /\ AuxQuiet

\* every name of the specification is readable on disk with the value given
Persisted(d, inputs) ==
  /\ d.state = "ok"
  /\ \A i \in 1..Len(RequiredInputs) :
       /\ d.map[RequiredInputs[i].name] # NoEntry
       /\ d.map[RequiredInputs[i].name] = JsonDump(inputs[RequiredInputs[i].name])

Remember(k, v, io) ==
  LET m == RememberOp(cache, disk, k, v, io)
  IN /\ cache' = m.cache
     /\ disk' = m.disk
     /\ last' = Call("remember", k, v, io, m.res)
     /\ settled' = NoSettled
     /\ pending' = IF m.res.status = "success"
                     THEN [phase |-> "remembered", key |-> k, value |-> v]
                     ELSE NoPending
     /\ UNCHANGED <<leadsvars, auxvars>>

Recall(k, default) ==
  LET r == RecallOp(cache, disk, k, default)
  IN /\ cache' = r.cache
     /\ disk' = disk
     /\ last' = Call("recall", k, default, "", r.res)
     /\ settled' = IF settled.phase = "none" THEN settled
                   ELSE [settled EXCEPT !.phase = "persisted"]
     /\ pending' = IF pending.phase = "restarted" /\ pending.key = k
                     THEN [pending EXCEPT !.phase = "recalled"]
                     ELSE NoPending
     /\ UNCHANGED <<leadsvars, auxvars>>

ClearMemory(io) ==
  LET m == ClearOp(disk, io)
  IN /\ cache' = m.cache
     /\ disk' = m.disk
     /\ last' = Call("clear", "", Absent, io, m.res)
     /\ settled' = NoSettled
     /\ pending' = NoPending
     /\ UNCHANGED <<leadsvars, auxvars>>

\* the process ends and a new one starts: the module-level cache is empty
\* again, the file is kept
Restart ==
  /\ cache' = EmptyCache
  /\ disk' = disk
  /\ last' = [NoCall EXCEPT !.op = "restart"]
  /\ settled' = IF settled.phase = "none" THEN settled
                ELSE [settled EXCEPT !.phase = "persisted"]
  /\ pending' = IF pending.phase = "remembered"
                  THEN [pending EXCEPT !.phase = "restarted"]
                  ELSE NoPending
  /\ UNCHANGED <<leadsvars, auxvars>>

EnsureRequiredInputs(lines, ios) ==
  LET e == ensure_required_inputs(cache, disk, lines, ios)
  IN /\ e.done
     /\ e.rest = <<>>
     /\ cache' = e.cache
     /\ disk' = e.disk
     /\ last' = [NoCall EXCEPT !.op = "ensure", !.status = "success",
                               !.inputs = e.inputs, !.prompts = e.prompts,
                               !.sources = e.sources]
     /\ settled' = IF settled.phase # "none"
                     THEN [settled EXCEPT !.phase = "repeated"]
                   ELSE IF Persisted(e.disk, e.inputs)
                     THEN [phase |-> "persisted", inputs |-> e.inputs]
                   ELSE NoSettled
     /\ pending' = NoPending
     /\ UNCHANGED <<leadsvars, auxvars>>

\* what the operator types during one call, and the outcome of the file
\* write of each remember the call makes
OperatorLines == LinesUpTo(MaxLines)
WriteOutcomes == [Keys -> IoOutcomes]

MemNext ==
  \/ \E k \in Keys, v \in Values, io \in IoOutcomes : Remember(k, v, io)
  \/ \E k \in Keys, default \in {PyNone, PyStr("x")} : Recall(k, default)
  \/ \E io \in IoOutcomes : ClearMemory(io)
  \/ Restart
  \/ \E lines \in OperatorLines, ios \in WriteOutcomes :
       EnsureRequiredInputs(lines, ios)

SpecMem == MemInit /\ [][MemNext]_vars

(***************************************************************************)
(* The Interaction Gate on its own: get_user_input and                     *)
(* ensure_required_inputs applied to drawn arguments                       *)
(***************************************************************************)
\* default arguments of get_user_input: None, a text, the number 0
GateDefaults == {PyNone, PyStr("5"), PyInt("0")}

\* options arguments of get_user_input: None, and two lists
GateOptions == {{}, {"x"}, {"x", "3"}}

\* a specification whose first name has the default 0 and whose second
\* name has a default next to its options
ZeroDefaultInputs ==
  << [name |-> "leads_count", default |-> PyInt("0"), options |-> {},
      type |-> "int"],
     [name |-> "tone", default |-> PyStr("x"), options |-> {"x", "3"},
      type |-> "str"] >>

\* a specification with an int name without default and a bool name whose
\* default is the bool True, and one with a float name
CoercionInputs ==
  << [name |-> "leads_count", default |-> PyNone, options |-> {},
      type |-> "int"],
     [name |-> "tone", default |-> PyBool("True"), options |-> {},
      type |-> "bool"] >>

FloatInputs ==
  << [name |-> "leads_count", default |-> PyStr("x"), options |-> {},
      type |-> "float"] >>

GateSpecs == {RequiredInputs, ZeroDefaultInputs, CoercionInputs, FloatInputs}

\* the cache a call of ensure_required_inputs finds; there is no file
GatePreCaches ==
  {EmptyCache, [EmptyCache EXCEPT !["tone"] = PyStr("x")],
   [EmptyCache EXCEPT !["leads_count"] = PyInt("3")]}

\* get_user_input(prompt, default, options) while the operator types
\* lines: it has returned, or it is prompting again after the last line;
\* one call is made from the start of the process
AskOperator(lines, default, options) ==
  LET g == get_user_input(lines, default, options)
  IN /\ asked = NoAsk
     /\ g.rest = <<>>
     /\ asked' = [NoAsk EXCEPT !.op = "get_user_input", !.default = default,
                               !.options = options, !.lines = lines,
                               !.done = g.done, !.value = g.value,
                               !.prompts = g.prompts]
     /\ UNCHANGED <<memvars, leadsvars, touched, webvars>>

\* ensure_required_inputs(required_inputs) in a process whose cache is c
EnsureInputsOf(required_inputs, c, lines, ios) ==
  LET e == EnsureInputs(required_inputs, 1, c, DiskMissing, lines, ios,
                        [inputs |-> NoInputs, prompts |-> 0,
                         sources |-> NoSources])
  IN /\ asked = NoAsk
     /\ e.done
     /\ e.rest = <<>>
     /\ cache' = e.cache
     /\ disk' = e.disk
     /\ asked' = [NoAsk EXCEPT !.op = IF e.raised THEN "ensure_raised"
                                      ELSE "ensure",
                               !.spec = required_inputs,
                               !.lines = lines, !.pre = c, !.done = TRUE,
                               !.prompts = e.prompts, !.inputs = e.inputs,
                               !.sources = e.sources, !.raised = e.raised]
     /\ UNCHANGED <<last, settled, pending, leadsvars, touched, webvars>>

\* the value of --mode on the command line; ModeOmitted: the flag is not given
ModeOmitted == "--"
ModeArgs == {ModeOmitted, "auto", "interactive", "test"}

\* choices=["auto", "interactive"] of the --mode argument
ModeChoices == {"auto", "interactive"}

\* parse_args(): argparse ends the process with status 2 on a --mode value
\* outside choices; default="auto" when the flag is omitted
parse_args(mode) ==
  IF mode = ModeOmitted THEN [exit |-> 0, mode |-> "auto"]
  ELSE IF mode \in ModeChoices THEN [exit |-> 0, mode |-> mode]
  ELSE [exit |-> 2, mode |-> "none"]

\* the configuration main() loads: the file create_default_config writes
\* when there is none, and one that takes its leads from Apollo
DefaultConfig ==
  [lead_source |-> "csv", email_provider |-> "gmail", crm |-> "airtable"]
ConfigFiles ==
  {DefaultConfig,
   [lead_source |-> "apollo", email_provider |-> "gmail", crm |-> "none"]}

\* required_keys of main()
RequiredKeys(config) ==
  {"OPENAI_API_KEY"}
    \cup (IF config.lead_source = "apollo" THEN {"APOLLO_API_KEY"} ELSE {})
    \cup (IF config.email_provider = "gmail" THEN {"GMAIL_CREDENTIALS"} ELSE {})
    \cup (IF config.crm = "airtable" THEN {"AIRTABLE_API_KEY"} ELSE {})

ApiKeys ==
  {"OPENAI_API_KEY", "APOLLO_API_KEY", "GMAIL_CREDENTIALS", "AIRTABLE_API_KEY"}

\* main(): parse_args, load_config, the check of the API keys, then
\* AgentPlanner(config, mode=args.mode).run(); keys: the variables of the
\* environment that have a non-empty value
Main(mode, config, keys) ==
  LET args == parse_args(mode)
      missing_keys == RequiredKeys(config) \ keys
      started == args.exit = 0 /\ missing_keys = {}
  IN /\ asked = NoAsk
     /\ asked' = [NoAsk EXCEPT !.op = "main", !.done = TRUE,
                               !.value = [t |-> "main", argv |-> mode,
                                          config |-> config, keys |-> keys,
                                          exit |-> args.exit,
                                          missing |-> IF args.exit = 0
                                                        THEN missing_keys ELSE {},
                                          started |-> started,
                                          mode |-> IF started THEN args.mode
                                                   ELSE "none"]]
     /\ UNCHANGED <<memvars, leadsvars, touched, webvars>>

\* confirm_action(description, default) and the line the operator types
ConfirmAction(line, default) ==
  LET a == confirm_action(<<line>>, default)
  IN /\ asked = NoAsk
     /\ a.done
     /\ asked' = [NoAsk EXCEPT !.op = "confirm_action", !.default = default,
                               !.lines = <<line>>, !.done = TRUE,
                               !.value = a.value, !.prompts = 1]
     /\ UNCHANGED <<memvars, leadsvars, touched, webvars>>

GateNext ==
  \/ \E mode \in ModeArgs, config \in ConfigFiles, keys \in SUBSET ApiKeys :
       Main(mode, config, keys)
  \/ \E line \in ConfirmEntries, default \in {PyBool("True"), PyBool("False")} :
       ConfirmAction(line, default)
  \/ \E lines \in OperatorLines, default \in GateDefaults,
        options \in GateOptions : AskOperator(lines, default, options)
  \/ \E required_inputs \in GateSpecs, c \in GatePreCaches,
        lines \in OperatorLines, ios \in WriteOutcomes :
       EnsureInputsOf(required_inputs, c, lines, ios)

SpecGate == MemInit /\ [][GateNext]_vars

(***************************************************************************)
(* The disk I/O of the Memory Store over remember and recall calls of one  *)
(* process run, and over restarts                                          *)
(***************************************************************************)
\* the history after a call on key k: io holds the keys a call has opened
\* the file for, known the keys a remember has stored or a recall has
\* found; again marks a call that opened the file for a key of io,
\* recallAgain a recall that opened it for a key of known
Touch(op, k, opens, knows) ==
  [io |-> IF opens THEN touched.io \cup {k} ELSE touched.io,
   known |-> IF knows THEN touched.known \cup {k} ELSE touched.known,
   op |-> op, key |-> k, didIo |-> opens,
   again |-> opens /\ k \in touched.io,
   recallAgain |-> op = "recall" /\ opens /\ k \in touched.known]

IoRemember(k, v, io) ==
  LET m == RememberOp(cache, disk, k, v, io)
  IN /\ cache' = m.cache
     /\ disk' = m.disk
     /\ touched' = Touch("remember", k, RememberOpensFile(cache, disk, k), TRUE)
     /\ UNCHANGED <<last, settled, pending, leadsvars, asked, webvars>>

IoRecall(k, default) ==
  LET r == RecallOp(cache, disk, k, default)
  IN /\ cache' = r.cache
     /\ disk' = disk
     /\ touched' = Touch("recall", k, RecallOpensFile(cache, disk, k),
                         r.res.source \in {"memory", "disk"})
     /\ UNCHANGED <<last, settled, pending, leadsvars, asked, webvars>>

\* a new process run: empty cache, the file kept, no disk I/O yet
IoRestart ==
  /\ cache' = EmptyCache
  /\ disk' = disk
  /\ touched' = [NoTouch EXCEPT !.op = "restart"]
  /\ UNCHANGED <<last, settled, pending, leadsvars, asked, webvars>>

IoNext ==
  \/ \E k \in Keys, v \in Values, io \in IoOutcomes : IoRemember(k, v, io)
  \/ \E k \in Keys, default \in {PyNone, PyStr("x")} : IoRecall(k, default)
  \/ IoRestart

SpecIo == MemInit /\ [][IoNext]_vars

(***************************************************************************)
(* Lead Acquisition Orchestrator (tools/get_leads.py, get_leads)           *)
(***************************************************************************)
\* get_leads calls of one run
MaxCalls == 1

\* values of TEST_MODE in the environment
TestModeEntries ==
  {EnvUnset, EnvValue(<<"T", "r", "u", "e">>)}

\* the ledger a run starts with: none, or a file with the rows earlier
\* runs have saved, of two industries
InitLedgers ==
  {LedgerMissing,
   Ledger(<<Lead("Kim Ray", <<"C", "T", "O">>, <<"F", "i", "n", "t", "e", "c", "h">>, <<"L", "i", "m", "a">>),
            Lead("Lou Fox", <<"F", "o", "u", "n", "d", "e", "r">>, <<"A", "I", " ", "S", "a", "a", "S">>, <<"R", "o", "m", "e">>)>>)}

\* memory.json a run starts with: none, a remembered count, a remembered
\* answer that is no number
InitDisks ==
  {DiskMissing,
   DiskOk([EmptyMap EXCEPT !["leads_count"] = JsonDump(PyInt("3"))]),
   DiskOk([EmptyMap EXCEPT !["leads_count"] = JsonDump(PyStr("x"))])}

Queries ==
  {BlankQuery,
   [industry |-> <<"a", "i">>, role |-> <<>>, location |-> <<>>],
   [industry |-> <<"F", "i", "n", "t", "e", "c", "h">>, role |-> <<>>, location |-> <<"l", "i", "m", "a">>]}

\* the count argument: None, or a number
CountArgs ==
  {[given |-> FALSE, n |-> 0]} \cup {[given |-> TRUE, n |-> c] : c \in {0, 1}}

LeadsInit ==
  /\ cache = EmptyCache
  /\ disk \in InitDisks
  /\ last = NoCall
  /\ settled = NoSettled
  /\ pending = NoPending
  /\ env \in TestModeEntries
  /\ ledger \in InitLedgers
  /\ pc = "idle"
  /\ req = NoReq
  /\ log = <<>>
  /\ result = NoResult
  /\ calls = 0
  /\ AuxQuiet

\* the head of get_leads: a count of None is taken from recall("leads_count")
\* and passed through int(), else asked for with the default "5", passed
\* through int() and remembered; an answer int() rejects gives the count 5,
\* which is not remembered
ResolveCount(c, d, arg, lines, io) ==
  IF arg.given
    THEN [cache |-> c, disk |-> d, rest |-> lines, done |-> TRUE,
          raised |-> FALSE, count |-> arg.n]
  ELSE LET r == RecallOp(c, d, "leads_count", PyNone)
           g == get_user_input(lines, PyStr("5"), {})
           m == RememberOp(r.cache, d, "leads_count", PyInt(g.value.v), io)
       IN IF r.res.status = "success"
            THEN [cache |-> r.cache, disk |-> d, rest |-> lines, done |-> TRUE,
                  raised |-> ~IntAccepts(r.res.value),
                  count |-> IF IntAccepts(r.res.value) THEN IntOf(r.res.value)
                            ELSE 0]
          ELSE IF ~g.done
            THEN [cache |-> c, disk |-> d, rest |-> lines, done |-> FALSE,
                  raised |-> FALSE, count |-> 0]
          ELSE IF IntAccepts(g.value)
            THEN [cache |-> m.cache, disk |-> m.disk, rest |-> g.rest,
                  done |-> TRUE, raised |-> FALSE, count |-> IntOf(g.value)]
          ELSE [cache |-> r.cache, disk |-> d, rest |-> g.rest, done |-> TRUE,
                raised |-> FALSE, count |-> 5]

\* an exception that leaves get_leads
Raised(message) == [status |-> "raised", error |-> message, leads |-> <<>>]

\* get_leads is called: the count is resolved, then TEST_MODE decides
\* between the local adapter and the chain
CallGetLeads(q, arg, lines, io) ==
  LET rc == ResolveCount(cache, disk, arg, lines, io)
  IN /\ pc = "idle"
     /\ calls < MaxCalls
     /\ rc.done
     /\ rc.rest = <<>>
     /\ cache' = rc.cache
     /\ disk' = rc.disk
     /\ req' = [query |-> q, count |-> rc.count]
     /\ log' = <<>>
     /\ calls' = calls + 1
     /\ pc' = IF rc.raised THEN "done" ELSE FirstTier(env)
     /\ result' = IF rc.raised THEN Raised("ValueError") ELSE NoResult
     /\ UNCHANGED <<last, settled, pending, env, ledger, auxvars>>

Attempt(tier, out, res) ==
  [tier |-> tier, kind |-> out.kind, avail |-> out.avail, res |-> res]

\* the attempt a with what it did: the ledger before it, whether it called
\* save_leads_to_csv and how the write went, and its run
Entry(a, save, run) ==
  [tier |-> a.tier, kind |-> a.kind, avail |-> a.avail, res |-> a.res,
   before |-> ledger, save |-> save, run |-> run]

\* save_leads_to_csv is called by an adapter that returns success
SaveOf(res, saved) ==
  IF res.status # "success" THEN "none"
  ELSE IF saved THEN "written" ELSE "failed"

\* a save_leads_to_csv without its try/except: the exception of the write
\* is caught by the adapter, which returns its error
SaveRaises(res, ok) == IF ok THEN res ELSE Failure("save error")

\* what an adapter returns after its call of save_leads_to_csv(leads): the
\* result it had built, whatever became of the write
AfterSave(res, ok) == res

\* the Apollo attempt of the chain; the leads of a reply are saved to the
\* ledger before the adapter returns
PrimaryAttempt(out, saved) ==
  LET built == get_leads_from_apollo(req.query, req.count, out)
      res == IF built.status = "success" THEN AfterSave(built, saved)
             ELSE built
  IN /\ pc = "primary"
     /\ saved \/ built.status = "success"
     /\ ledger' = IF built.status = "success"
                    THEN save_leads_to_csv(ledger, built.leads, saved)
                    ELSE ledger
     /\ log' = Append(log, Entry(Attempt("Primary", out, res),
                                 SaveOf(built, saved), NoRun))
     /\ pc' = IF res.status = "raised" THEN "done" ELSE AfterPrimary(res)
     /\ result' = IF res.status = "raised" \/ AfterPrimary(res) = "done"
                    THEN res ELSE result
     /\ UNCHANGED <<memvars, env, req, calls, auxvars>>

\* the Apify attempt of the chain, and the end of the chain
SecondaryAttempt(out, saved) ==
  LET built == get_leads_from_apify(req.query, req.count, out)
      res == IF built.status = "success" THEN AfterSave(built, saved)
             ELSE built
      run == ApifyRun(req.query, req.count, out).run
  IN /\ pc = "secondary"
     /\ saved \/ built.status = "success"
     /\ ledger' = IF built.status = "success"
                    THEN save_leads_to_csv(ledger, built.leads, saved)
                    ELSE ledger
     /\ log' = Append(log, Entry(Attempt("Secondary", out, res),
                                 SaveOf(built, saved),
                                 [submitted |-> run.submitted,
                                  polls |-> run.polls, status |-> run.status,
                                  fetched |-> run.fetched,
                                  finish |-> out.finish,
                                  terminal |-> out.terminal]))
     /\ pc' = "done"
     /\ result' = IF TierSucceeded(res) THEN res
                  ELSE Failure("Failed to retrieve leads from all available sources (Apollo, Apify).")
     /\ UNCHANGED <<memvars, env, req, calls, auxvars>>

\* the test-mode branch: the result of get_leads_from_csv is returned as is
LocalAttempt(readable) ==
  LET r == get_leads_from_csv(ledger, req.query, req.count, readable)
  IN /\ pc = "local"
     /\ ledger' = r.ledger
     /\ log' = Append(log, Entry([tier |-> "Local",
                            kind |-> IF readable THEN "rows" ELSE "unreadable",
                            avail |-> Cardinality({i \in 1..Len(r.ledger.rows) :
                                        RowMatches(r.ledger.rows[i], req.query)}),
                            res |-> r.res], "none", NoRun))
     /\ pc' = "done"
     /\ result' = r.res
     /\ UNCHANGED <<memvars, env, req, calls, auxvars>>

\* the caller takes the result
Return ==
  /\ pc = "done"
  /\ pc' = "idle"
  /\ req' = NoReq
  /\ log' = <<>>
  /\ result' = NoResult
  /\ UNCHANGED <<memvars, env, ledger, calls, auxvars>>

LeadsNext ==
  \/ \E q \in Queries, arg \in CountArgs, lines \in OperatorLines,
        io \in IoOutcomes : CallGetLeads(q, arg, lines, io)
  \/ \E out \in ApolloOutcomes, saved \in BOOLEAN : PrimaryAttempt(out, saved)
  \/ \E out \in ApifyOutcomes, saved \in BOOLEAN : SecondaryAttempt(out, saved)
  \/ \E readable \in BOOLEAN : LocalAttempt(readable)
  \/ Return

SpecLeads == LeadsInit /\ [][LeadsNext]_vars

(***************************************************************************)
(* Properties of the Memory Store and the Interaction Gate                 *)
(***************************************************************************)
\* C4: when a remember(key, value) call has returned success, the file and
\* the cache hold the same value for that key, the value of the call
C4_DiskEqualsCacheAfterRemember ==
  (last.op = "remember" /\ last.status = "success") =>
    /\ disk.state = "ok"
    /\ disk.map[last.key] # NoEntry
    /\ JsonLoad(disk.map[last.key]) = cache[last.key]
    /\ cache[last.key] = last.arg

\* a successful remember has overwritten a different value the file held
C4_Witness ==
  /\ last.op = "remember"
  /\ last.status = "success"
  /\ last.preDisk # NoEntry
  /\ JsonLoad(last.preDisk) # last.arg

\* C5: a repetition of ensure_required_inputs after a call whose answers are
\* all on disk, in the same process or after a restart, prompts for nothing
\* and returns the mapping of the first call
C5_EnsureIdempotent ==
  settled.phase = "repeated" =>
    /\ last.op = "ensure"
    /\ last.prompts = 0
    /\ last.inputs = settled.inputs

\* the repeated call ran after a restart and found one name in the cache (a
\* recall had loaded it) and the other one on disk
C5_Witness ==
  /\ settled.phase = "repeated"
  /\ last.sources["leads_count"] = "memory"
  /\ last.sources["tone"] = "disk"

\* C6: a successful remember(k, v), then a restart, then recall(k): the
\* recall returns v with source "disk"
C6_RoundTripThroughDisk ==
  pending.phase = "recalled" =>
    /\ last.op = "recall"
    /\ last.status = "success"
    /\ last.value = pending.value
    /\ last.source = "disk"

\* the round trip has been made with an integer value
C6_Witness ==
  /\ pending.phase = "recalled"
  /\ pending.value.t = "int"
  /\ last.preCache = Absent

\* the resolution order of recall, with the source name given to a cache hit
RecallResolves(cacheSource) ==
  last.op = "recall" =>
    /\ last.preCache # Absent =>
         /\ last.status = "success"
         /\ last.value = last.preCache
         /\ last.source = cacheSource
    /\ (last.preCache = Absent /\ last.preDisk # NoEntry) =>
         /\ last.status = "success"
         /\ last.value = JsonLoad(last.preDisk)
         /\ last.source = "disk"
         /\ cache[last.key] = last.value
    /\ (last.preCache = Absent /\ last.preDisk = NoEntry /\ last.arg # PyNone) =>
         /\ last.status = "success"
         /\ last.value = last.arg
         /\ last.source = "default"
    /\ (last.preCache = Absent /\ last.preDisk = NoEntry /\ last.arg = PyNone) =>
         /\ last.status = "error"
         /\ last.value = Absent

\* C9 (as stated): recall resolves cache, disk, default, and a cache hit
\* carries the source "cache"
C9_SourceCache == RecallResolves("cache")

\* C9 (amended): recall resolves cache, disk, default; a cache hit carries the
\* source "memory", a disk hit the source "disk" and leaves the key in the
\* cache, a miss returns the default with source "default" when the default
\* is not None and the error result "Key not found" otherwise
C9_SourceMemory == RecallResolves("memory")

\* a recall has been answered from the cache although the file holds a
\* different value for the key
C9_Witness ==
  /\ last.op = "recall"
  /\ last.preCache # Absent
  /\ last.preDisk # NoEntry
  /\ JsonLoad(last.preDisk) # last.preCache

\* C10: when the file write of remember(key, value) does not complete the
\* call reports an error, the cache holds value under key and a recall(key)
\* in the same process returns value
C10_CacheKeptOnWriteFailure ==
  (last.op = "remember" /\ last.io # "ok") =>
    /\ last.status = "error"
    /\ cache[last.key] = last.arg
    /\ RecallOp(cache, disk, last.key, PyNone).res.status = "success"
    /\ RecallOp(cache, disk, last.key, PyNone).res.value = last.arg

\* a remember whose write failed has put a new value in the cache
C10_Witness ==
  /\ last.op = "remember"
  /\ last.io # "ok"
  /\ last.preCache # last.arg

(***************************************************************************)
(* Properties of the Lead Acquisition Orchestrator                         *)
(***************************************************************************)
Live == ~IsTestMode(env)

Tiers == [i \in 1..Len(log) |-> log[i].tier]

IsPrefix(a, b) == Len(a) <= Len(b) /\ a = SubSeq(b, 1, Len(a))

\* an attempt is failed when it returned an error or no lead
AttemptFailed(a) == a.res.status # "success" \/ a.res.leads = <<>>

IsTerminalError(r) ==
  r.error = "Failed to retrieve leads from all available sources (Apollo, Apify)."

\* a live call walks the chain in order: an adapter is attempted only after
\* every earlier one has failed, the call ends at the first success with
\* the leads of that attempt, and otherwise after the whole chain
WalksChain(chain) ==
  Live =>
    /\ IsPrefix(Tiers, chain)
    /\ \A i \in 1..Len(log) : i < Len(log) => AttemptFailed(log[i])
    /\ (pc = "done" /\ log # <<>>) =>
         \/ /\ ~AttemptFailed(log[Len(log)])
            /\ result = log[Len(log)].res
         \/ /\ AttemptFailed(log[Len(log)])
            /\ Tiers = chain

ErrorIffAllFailed(chain) ==
  (Live /\ pc = "done" /\ log # <<>>) =>
    /\ IsTerminalError(result) <=>
         (Tiers = chain /\ \A i \in 1..Len(log) : AttemptFailed(log[i]))
    /\ IsTerminalError(result) => (result.leads = <<>> /\ result.status # "success")
    /\ result.status # "raised"
    /\ \A i \in 1..Len(log) :
         (AttemptFailed(log[i]) /\ i < Len(chain)) => i < Len(log)

C3_TestModeOnlyLocal ==
  IsTestMode(env) =>
    /\ pc \notin {"primary", "secondary"}
    /\ \A i \in 1..Len(log) : log[i].tier = "Local"
    /\ (pc = "done" /\ result.status # "raised") => Len(log) = 1

\* a test-mode call has ended after the Local Adapter found no lead
C3_Witness ==
  /\ IsTestMode(env)
  /\ pc = "done"
  /\ Len(log) = 1
  /\ log[1].avail = 0
  /\ result.status = "success"

\* C7 (as stated): a successful get_leads returns exactly min(count,
\* available) leads, available being the matches of the adapter that
\* succeeded, and never more than count
C7_ExactlyMinCountAvailable ==
  (pc = "done" /\ result.status = "success") =>
    /\ Len(result.leads) = Min(req.count, log[Len(log)].avail)
    /\ Len(result.leads) <= req.count

\* a test-mode call for zero leads has returned one lead
C7_Witness ==
  /\ IsTestMode(env)
  /\ pc = "done"
  /\ req.count = 0
  /\ result.status = "success"
  /\ Len(result.leads) = 1

\* an attempt that returned no lead is followed by the next adapter, or by
\* the terminal error when it was the last one, and no successful result is
\* without leads
EmptyIsFailure ==
  /\ \A i \in 1..Len(log) :
       (pc = "done" /\ log[i].res.status = "success" /\ log[i].res.leads = <<>>) =>
         \/ i < Len(log)
         \/ result.status # "success"
  /\ (pc = "done" /\ result.status = "success") => result.leads # <<>>

\* C8 (as stated): an attempt without leads is a failed attempt, and no
\* successful get_leads result has an empty lead sequence
C8_NoEmptySuccess == EmptyIsFailure

\* C8 (amended): in live mode an attempt without leads is a failed attempt
\* and no successful result is empty; in test mode the result of the Local
\* Adapter is returned as it is, with or without leads
C8_NoEmptySuccessLive ==
  /\ Live => EmptyIsFailure
  /\ (IsTestMode(env) /\ pc = "done" /\ log # <<>>) => result = log[1].res

\* a live call went on to the Secondary Adapter after Apollo answered with
\* no people, and succeeded there
C8_Witness ==
  /\ Live
  /\ pc = "done"
  /\ Len(log) = 2
  /\ log[1].kind = "people"
  /\ log[1].res.leads = <<>>
  /\ result.status = "success"

(***************************************************************************)
(* C11: after clear_memory the in-process cache is empty in every case;    *)
(* when the file write succeeds (or there is no file to write) the call    *)
(* reports success and no key is readable on disk; when the write of an    *)
(* existing file fails the call reports an error and the cache is empty    *)
(* all the same.  The file is missing after the call only when it was      *)
(* missing before it, and then no write is made.                           *)
(***************************************************************************)
C11_ClearEmptiesCache ==
  last.op = "clear" =>
    /\ cache = EmptyCache
    /\ last.status \in {"success", "error"}
    /\ last.status = "success" =>
         /\ disk.state # "corrupt"
         /\ ReadDisk(disk) = EmptyMap
    /\ (disk.state # "missing" /\ last.io = "ok") => last.status = "success"
    /\ (disk.state # "missing" /\ last.io # "ok") => last.status = "error"

\* a clear whose write failed before the file was touched: the file still
\* holds a key, the cache holds none
C11_Witness ==
  /\ last.op = "clear"
  /\ last.io = "fail_early"
  /\ last.status = "error"
  /\ disk.state = "ok"
  /\ disk.map # EmptyMap
  /\ cache = EmptyCache

(***************************************************************************)
(* Properties of the Interaction Gate on its own                           *)
(***************************************************************************)
\* every typed line is blank after the trim: the operator gave no input
NoOperatorInput == \A j \in 1..Len(asked.lines) : Strip(asked.lines[j]) = ""

\* C12 (as stated): the mapping ensure_required_inputs returns has a value
\* for every name of its specification; every value resolved on a memory
\* miss is in the store when the call returns; and for a name that has
\* neither a remembered value nor operator input, the resolved value is
\* the default the specification provides (after the type coercion)
C12_DefaultResolvesMissingInput ==
  asked.op = "ensure" =>
    \A i \in 1..Len(asked.spec) :
      LET p == asked.spec[i]
      IN /\ asked.inputs[p.name] # Absent
         /\ asked.pre[p.name] = Absent =>
              /\ asked.sources[p.name] = "prompt"
              /\ cache[p.name] = asked.inputs[p.name]
         /\ (asked.pre[p.name] = Absent /\ NoOperatorInput
                /\ p.default # PyNone) =>
              asked.inputs[p.name] = Coerce(p.type, p.default)

\* the call that refutes it: the default of leads_count is the number 0,
\* the operator enters nothing, and the empty text is returned and
\* remembered
C12_Witness ==
  /\ asked.op = "ensure"
  /\ asked.spec = ZeroDefaultInputs
  /\ asked.pre["leads_count"] = Absent
  /\ NoOperatorInput
  /\ asked.inputs["leads_count"] = PyStr("")
  /\ cache["leads_count"] = PyStr("")

\* C13: with an options list given, get_user_input returns only the
\* trimmed last entry when it is a member of the list, or the default on an
\* empty entry; every entry before the last one was no member, and each of
\* them led to another prompt; while no entry is accepted the call is
\* still prompting, however many entries were typed
C13_OnlyListedEntriesReturned ==
  (asked.op = "get_user_input" /\ asked.options # {}) =>
    LET n == Len(asked.lines)
        entry(j) == Strip(asked.lines[j])
        refused(j) == entry(j) \notin asked.options
                        /\ ~(entry(j) = "" /\ Truthy(asked.default))
    IN /\ asked.done =>
            /\ n >= 1
            /\ asked.prompts = n
            /\ \A j \in 1..(n - 1) : refused(j)
            /\ \/ /\ asked.value = PyStr(entry(n))
                  /\ entry(n) \in asked.options
               \/ /\ entry(n) = ""
                  /\ Truthy(asked.default)
                  /\ asked.value = asked.default
       /\ ~asked.done =>
            /\ asked.prompts = n
            /\ \A j \in 1..n : refused(j)

\* an entry outside the list, then one that is in the list after the trim
C13_Witness ==
  /\ asked.op = "get_user_input"
  /\ asked.options = {"x"}
  /\ asked.done
  /\ asked.prompts >= 2
  /\ asked.lines[1] = "3"
  /\ asked.value = PyStr("x")

(***************************************************************************)
(* Properties of the Secondary Adapter's run                               *)
(***************************************************************************)
\* the Secondary attempts of the running call that submitted a run
SubmittedRuns ==
  {i \in 1..Len(log) : log[i].tier = "Secondary" /\ log[i].run.submitted}

\* C14: the polling loop ends after at most max_attempts status polls; a
\* run that shows no terminal status within that budget ends the attempt
\* with "Apify run timed out" after exactly max_attempts polls, and a run
\* whose poll reports FAILED, ABORTED or TIMED-OUT ends it with the other
\* failure, "Apify run failed with status"
C14_PollingBounded ==
  \A i \in SubmittedRuns :
    LET a == log[i]
    IN /\ a.run.polls \in 1..max_attempts
       /\ a.run.finish > max_attempts =>
            /\ a.run.polls = max_attempts
            /\ a.run.status = "RUNNING"
            /\ a.res = Failure("Apify run timed out")
       /\ (a.run.finish <= max_attempts /\ a.run.terminal \in FailedStatuses) =>
            /\ a.run.status = a.run.terminal
            /\ a.res = Failure("Apify run failed with status")
       /\ a.res = Failure("Apify run timed out") => a.run.finish > max_attempts
       /\ Failure("Apify run timed out") # Failure("Apify run failed with status")

\* a run that is still running at the last poll of the budget
C14_Witness ==
  \E i \in SubmittedRuns :
    /\ log[i].run.finish = max_attempts + 1
    /\ log[i].run.polls = max_attempts
    /\ log[i].res = Failure("Apify run timed out")
    /\ pc = "done"
    /\ IsTerminalError(result)

\* C15: the dataset is fetched only when a run was submitted and the last
\* poll reported SUCCEEDED; an attempt that submits no run makes no poll
\* and no fetch; a run whose poll reports a failed status ends the attempt
\* at that poll, with no further poll and no fetch; a run that times out is
\* not fetched; and the attempt returns leads only from a fetch
C15_FetchOnlyAfterSuccess ==
  \A i \in 1..Len(log) :
    log[i].tier = "Secondary" =>
      LET a == log[i]
      IN /\ a.run.fetched =>
              /\ a.run.submitted
              /\ a.run.status = "SUCCEEDED"
              /\ a.run.terminal = "SUCCEEDED"
              /\ a.run.polls = a.run.finish
         /\ ~a.run.submitted => (a.run.polls = 0 /\ ~a.run.fetched)
         /\ (a.run.submitted /\ a.run.terminal \in FailedStatuses) =>
              /\ a.run.polls = a.run.finish
              /\ ~a.run.fetched
              /\ a.res.status # "success"
         /\ (a.run.submitted /\ a.run.finish > max_attempts) => ~a.run.fetched
         /\ a.res.status = "success" => a.run.fetched

\* a run that reports SUCCEEDED at the last poll of the budget and is
\* fetched
C15_Witness ==
  \E i \in SubmittedRuns :
    /\ log[i].run.fetched
    /\ log[i].run.finish = max_attempts
    /\ log[i].run.polls = max_attempts
    /\ log[i].res.status = "success"
    /\ log[i].res.leads # <<>>

(***************************************************************************)
(* Properties of the ledger (data/leads.csv)                               *)
(***************************************************************************)
\* the attempt that ended the running call
LastAttempt == log[Len(log)]

CallSucceeded == pc = "done" /\ log # <<>> /\ result.status = "success"

ProviderLeads(a) ==
  IF a.tier = "Primary"
    THEN [j \in 1..Served(req.count, a.avail) |->
            ApolloLead(ApolloPeople[j], req.query)]
  ELSE [j \in 1..Served(req.count, a.avail) |-> ApifyLead(ApifyItems[j], req.query)]

\* C20: an attempt whose ledger write failed returns success with the leads
\* the provider served, in the provider's order, and leaves the ledger as
\* it was; when such an attempt brought leads the call ends with that
\* result
C20_LedgerFailureKeepsResult ==
  \A i \in 1..Len(log) :
    log[i].save = "failed" =>
      /\ log[i].res = Success(ProviderLeads(log[i]))
      /\ (i = Len(log) /\ pc = "done" /\ ProviderLeads(log[i]) # <<>>) =>
           /\ result = Success(ProviderLeads(log[i]))
           /\ ledger = log[i].before

\* a call that returns two leads of the Primary adapter although the
\* ledger write failed
C20_Witness ==
  /\ CallSucceeded
  /\ LastAttempt.tier = "Primary"
  /\ LastAttempt.save = "failed"
  /\ Len(result.leads) = 2
  /\ result.leads[1] # result.leads[2]
  /\ result.leads[1] = ApolloLead(ApolloPeople[1], req.query)

(***************************************************************************)
(* Properties of the leads returned                                        *)
(***************************************************************************)
\* C17 (as stated): every lead of a successful get_leads result has a
\* non-empty full name and a non-empty title (the lead of the model carries
\* these two of the four required fields; company and email are built by
\* the same person.get(field, "") and row.get(field, ""))
C17_RequiredFieldsNonEmpty ==
  (pc = "done" /\ result.status = "success") =>
    \A i \in 1..Len(result.leads) :
      /\ result.leads[i].name # ""
      /\ result.leads[i].title # <<>>

\* a successful live call that returns a lead without name and title: the
\* provider's second person has neither
C17_Witness ==
  /\ CallSucceeded
  /\ LastAttempt.tier = "Primary"
  /\ LastAttempt.save = "written"
  /\ Len(result.leads) = 2
  /\ result.leads[1].name # ""
  /\ result.leads[2].name = ""
  /\ result.leads[2].title = <<>>

\* the filter as the claim words it: the query value is blank or is a
\* case-insensitive substring of the row's field
Wanted(row, q) ==
  /\ q.industry = <<>> \/ Contains(Lower(row.industry), Lower(q.industry))
  /\ q.role = <<>> \/ Contains(Lower(row.title), Lower(q.role))
  /\ q.location = <<>> \/ Contains(Lower(row.location), Lower(q.location))

WantedRows == SelectSeq(ledger.rows, LAMBDA row : Wanted(row, req.query))

LocalRead ==
  /\ pc = "done"
  /\ log # <<>>
  /\ LastAttempt.tier = "Local"
  /\ LastAttempt.kind = "rows"

\* C18 (as stated): the Local Adapter returns rows of the ledger that pass
\* the filter, in ledger order, at most count of them, and all of them when
\* they are fewer than count
C18_LocalFilterUpToCount ==
  LocalRead =>
    /\ result.status = "success"
    /\ IsPrefix(result.leads, WantedRows)
    /\ Len(result.leads) <= req.count
    /\ Len(result.leads) < req.count => result.leads = WantedRows

\* the same with the bound on the number of rows for a count of 1 or more
C18_LocalFilterForPositiveCount ==
  LocalRead =>
    /\ result.status = "success"
    /\ IsPrefix(result.leads, WantedRows)
    /\ req.count >= 1 => Len(result.leads) <= req.count
    /\ Len(result.leads) < req.count => result.leads = WantedRows

\* industry "ai" on a ledger with a Fintech row and an AI SaaS row, asked
\* for 0 rows: the AI SaaS row is returned
C18_Witness ==
  /\ LocalRead
  /\ req.query.industry = <<"a", "i">>
  /\ req.count = 0
  /\ Len(ledger.rows) = 2
  /\ ledger.rows[1].industry = <<"F", "i", "n", "t", "e", "c", "h">>
  /\ Len(result.leads) = 1
  /\ result.leads[1] = ledger.rows[2]

(***************************************************************************)
(* Properties of the Memory Store's disk I/O                               *)
(***************************************************************************)
\* C19 (as stated): within one process run no remember or recall call
\* opens the file for a key the file was opened for before
C19_DiskIoOncePerKey == ~touched.again

\* C19 (amended): within one process run no recall opens the file for a
\* key that a remember has stored or a recall has found; a call that opens
\* the file again for a key is a remember, or a recall that ends without
\* the key from cache or disk
C19_RecallReadsFileOnlyOnMiss ==
  /\ ~touched.recallAgain
  /\ touched.again =>
       \/ touched.op = "remember"
       \/ touched.op = "recall" /\ touched.key \notin touched.known
  /\ (touched.op = "recall" /\ touched.key \in touched.known) =>
       cache[touched.key] # Absent

\* a recall answered from the cache with no disk I/O, for a key an earlier
\* call of the run has opened the file for
C19_Witness ==
  /\ touched.op = "recall"
  /\ ~touched.didIo
  /\ touched.key \in touched.io
  /\ touched.key \in touched.known
  /\ disk.state = "ok"
  /\ disk.map[touched.key] # NoEntry
  /\ cache[touched.key] = JsonLoad(disk.map[touched.key])

(***************************************************************************)
(* Properties of the type coercion of ensure_required_inputs               *)
(***************************************************************************)
\* for every name an int or float coercion failed on, the raw text is the
\* value returned, kept in the cache and written to the file
FailedCoercionKeepsRawText ==
  \A i \in 1..Len(asked.spec) :
    LET p == asked.spec[i]
        v == asked.inputs[p.name]
    IN (asked.sources[p.name] = "prompt" /\ p.type \in {"int", "float"}
          /\ v # Absent /\ v.t \notin {"int", "float"}) =>
         /\ v.t = "str"
         /\ v.v \notin IntTexts
         /\ \/ \E j \in 1..Len(asked.lines) : v.v = Strip(asked.lines[j])
            \/ v = p.default
         /\ cache[p.name] = v
         /\ ReadDisk(disk)[p.name] # NoEntry =>
              ReadDisk(disk)[p.name] = JsonDump(v)

\* C21 (as stated): no call of ensure_required_inputs raises out of a type
\* coercion, and an input whose coercion fails resolves to the raw text,
\* which is the value persisted and returned
C21_CoercionNeverRaises ==
  asked.op \in {"ensure", "ensure_raised"} =>
    /\ ~asked.raised
    /\ FailedCoercionKeepsRawText

\* the same for the calls that return: the int and float coercions
C21_IntFloatFailureKeepsRawText ==
  asked.op = "ensure" => (~asked.raised /\ FailedCoercionKeepsRawText)

\* the call that raises: the int coercion of "x" has failed and "x" is
\* stored, then the bool name gets its default True on an empty entry and
\* True.lower() raises before anything is returned
C21_Witness ==
  /\ asked.op = "ensure_raised"
  /\ asked.raised
  /\ asked.spec = CoercionInputs
  /\ asked.lines = <<" x ", "">>
  /\ cache["leads_count"] = PyStr("x")
  /\ asked.inputs["tone"] = Absent
  /\ cache["tone"] = Absent

(***************************************************************************)
(* Properties of confirm_action                                            *)
(***************************************************************************)
\* C22: confirm_action returns its default when the entry is empty after
\* the trim, True when the entry is "y", "yes", "true" or "1" in any letter
\* case, and False on every other entry; with default True it returns True
\* on the empty entry and False on "n"
C22_ConfirmAction ==
  asked.op = "confirm_action" =>
    LET entry == Strip(asked.lines[1])
    IN /\ entry = "" => asked.value = asked.default
       /\ entry \in {"Y", "yes", "YES", "True", "1"} =>
            asked.value = PyBool("True")
       /\ entry \in {"n", "no"} => asked.value = PyBool("False")
       /\ entry \in {"", "Y", "yes", "YES", "True", "1", "n", "no"}
       /\ (asked.default = PyBool("True") /\ asked.lines = <<"">>) =>
            asked.value = PyBool("True")
       /\ (asked.default = PyBool("True") /\ asked.lines = <<"n">>) =>
            asked.value = PyBool("False")

\* default False and the entry " Y ": the answer is True
C22_Witness ==
  /\ asked.op = "confirm_action"
  /\ asked.default = PyBool("False")
  /\ asked.lines = <<" Y ">>
  /\ asked.value = PyBool("True")

(***************************************************************************)
(* Properties of the command-line entry point                              *)
(***************************************************************************)
\* C23: each of the modes the README documents for --mode (test,
\* interactive, auto) is accepted by the entry point, and the agent is
\* started in that mode once its API keys are there
C23_DocumentedModesStart ==
  (asked.op = "main" /\ asked.value.argv \in {"test", "interactive", "auto"}) =>
    /\ asked.value.exit = 0
    /\ asked.value.missing = {} =>
         (asked.value.started /\ asked.value.mode = asked.value.argv)

\* the modes of the choices list are accepted and start the agent in that mode
C23_ChoicesStart ==
  (asked.op = "main" /\ asked.value.argv \in {"interactive", "auto"}) =>
    /\ asked.value.exit = 0
    /\ asked.value.missing = {} =>
         (asked.value.started /\ asked.value.mode = asked.value.argv)

\* --mode test with every API key set: the process ends with status 2 and
\* no agent is started
C23_Witness ==
  /\ asked.op = "main"
  /\ asked.value.argv = "test"
  /\ asked.value.keys = ApiKeys
  /\ asked.value.exit = 2
  /\ ~asked.value.started

(***************************************************************************)
(* Requests to the API routes                                              *)
(***************************************************************************)
\* the database has an id left for every row the handler inserted
Fits(d) ==
  /\ Len(d.agents) <= Len(AgentIds)
  /\ Len(d.tasks) <= Len(TaskIds)
  /\ Len(d.emails) <= Len(EmailIds)
  /\ Len(d.leads) <= Len(LeadIds)
  /\ Len(d.chat_messages) <= Len(MessageIds)

\* one request served by a route handler
Serve(handler, session, body, res) ==
  /\ Fits(res.db)
  /\ db' = res.db
  /\ http' = [handler |-> handler, session |-> session, body |-> body,
              status |-> res.status, data |-> res.data, ops |-> res.ops,
              before |-> db]
  /\ UNCHANGED <<memvars, leadsvars, asked, touched, ui>>

GetEmailsRequest(session, status, leadId, fault) ==
  Serve("GET /api/emails", session, [status |-> status, lead_id |-> leadId],
        GetEmails(db, session, status, leadId, fault))

PutEmailRequest(session, id, subject, emailBody, status, fault) ==
  Serve("PUT /api/emails", session,
        [id |-> id, subject |-> subject, body |-> emailBody, status |-> status],
        PutEmail(db, session, id, subject, emailBody, status, fault))

PostEmailRequest(session, lead_id, subject, emailBody, action, fault) ==
  Serve("POST /api/emails", session,
        [lead_id |-> lead_id, subject |-> subject, body |-> emailBody,
         action |-> action],
        PostEmail(db, session, lead_id, subject, emailBody, action, fault))

MailNext ==
  \/ \E session \in Sessions, status \in {"", "sent"} :
       GetEmailsRequest(session, status, "", FALSE)
  \/ \E session \in Sessions, id \in {"", "e1", "e2", "e3"},
        subject \in {"", "Re"}, status \in {"", "sent", "draft"} :
       PutEmailRequest(session, id, subject, "", status, FALSE)
  \/ \E session \in Sessions, lead_id \in {"", "l1", "l2"},
        action \in {"send", "save"} :
       PostEmailRequest(session, lead_id, "Hi", "Text", action, FALSE)

SpecMail == MemInit /\ [][MailNext]_vars

(***************************************************************************)
(* Properties of the emails route                                          *)
(***************************************************************************)
\* C26: PUT /api/emails changes an email row only when the row's user_id
\* is the id of the session's user; for an id no row has, or a row of
\* another user, it responds 404 and every email row is as before
C26_PutOnlyOwnEmail ==
  http.handler = "PUT /api/emails" =>
    /\ Len(db.emails) = Len(http.before.emails)
    /\ \A i \in 1..Len(db.emails) :
         db.emails[i] # http.before.emails[i] =>
           /\ http.before.emails[i].user_id = http.session
           /\ http.before.emails[i].id = http.body.id
    /\ ( /\ http.session # NoSession
         /\ http.body.id # ""
         /\ ~\E i \in 1..Len(http.before.emails) :
               /\ http.before.emails[i].id = http.body.id
               /\ http.before.emails[i].user_id = http.session )
       => (http.status = 404 /\ db = http.before)

\* u2 asks to mark the email of u1 as sent and gets 404; and an owner's
\* request has changed a row before
C26_Witness ==
  /\ http.handler = "PUT /api/emails"
  /\ http.session = "u2"
  /\ http.body.id = "e1"
  /\ http.body.status = "sent"
  /\ Len(db.emails) = 2
  /\ db.emails[1].user_id = "u1"
  /\ db.emails[1].subject = "Re"
  /\ db.emails[1].status = "draft"
  /\ http.status = 404

\* C28: starting from an empty emails table, after any POST and PUT calls
\* every row with status 'sent' has a sent_at: POST writes 'sent' with a
\* sent_at exactly for the action 'send' and 'draft' with a null sent_at
\* otherwise, PUT stamps sent_at whenever it sets the status to 'sent'
C28_SentHasSentAt ==
  /\ \A i \in 1..Len(db.emails) :
       db.emails[i].status = "sent" => db.emails[i].sent_at # Null
  /\ (http.handler = "POST /api/emails" /\ http.status = 200) =>
       /\ http.data = db.emails[Len(db.emails)]
       /\ IF http.body.action = "send"
            THEN http.data.status = "sent" /\ http.data.sent_at # Null
            ELSE http.data.status = "draft" /\ http.data.sent_at = Null
  /\ ( /\ http.handler = "PUT /api/emails"
       /\ http.status = 200
       /\ http.body.status = "sent" )
     => (http.data.status = "sent" /\ http.data.sent_at # Null)

\* a draft written by POST is marked sent by PUT and has its sent_at
C28_Witness ==
  /\ http.handler = "PUT /api/emails"
  /\ http.status = 200
  /\ http.body.id = "e1"
  /\ http.before.emails[1].status = "draft"
  /\ http.before.emails[1].sent_at = Null
  /\ db.emails[1].status = "sent"
  /\ db.emails[1].sent_at = Now

(***************************************************************************)
(* Requests to every session-checked route                                 *)
(***************************************************************************)
\* the values of the Run Agent form
RunForm ==
  [target_industry |-> "AI SaaS", target_role |-> "Founder",
   target_region |-> "", lead_count |-> 10, email_tone |-> "professional",
   email_objective |-> "book_call"]

PostAgentRunRequest(session, fault) ==
  Serve("POST /api/agent/run", session, RunForm,
        PostAgentRun(db, session, RunForm, fault))

GetAgentRunsRequest(session, status, fault) ==
  Serve("GET /api/agent/runs", session, [status |-> status],
        GetAgentRuns(db, session, status, fault))

GetLeadsRequest(session, agentRunId, fault) ==
  Serve("GET /api/leads", session, [agent_run_id |-> agentRunId],
        GetLeads(db, session, agentRunId, fault))

PostLeadRequest(session, agent_run_id, full_name, fault) ==
  Serve("POST /api/leads", session,
        [agent_run_id |-> agent_run_id, full_name |-> full_name],
        PostLead(db, session, agent_run_id, full_name, fault))

GetChatRequest(session, agentRunId, fault) ==
  Serve("GET /api/chat", session, [agent_run_id |-> agentRunId],
        GetChat(db, session, agentRunId, fault))

PostChatRequest(session, content, agent_run_id, fault) ==
  Serve("POST /api/chat", session,
        [content |-> content, agent_run_id |-> agent_run_id],
        PostChat(db, session, content, agent_run_id, fault))

ApiNext ==
  \/ \E session \in Sessions, fault \in BOOLEAN :
       PostAgentRunRequest(session, fault)
  \/ \E session \in Sessions : GetAgentRunsRequest(session, "", FALSE)
  \/ \E session \in Sessions, agentRunId \in {"", "r1"} :
       GetLeadsRequest(session, agentRunId, FALSE)
  \/ \E session \in Sessions, agent_run_id \in {"", "r1"} :
       PostLeadRequest(session, agent_run_id, "Ann Poe", FALSE)
  \/ \E session \in Sessions : GetEmailsRequest(session, "", "", FALSE)
  \/ \E session \in Sessions :
       PutEmailRequest(session, "e1", "", "", "sent", FALSE)
  \/ \E session \in Sessions :
       PostEmailRequest(session, "l1", "Hi", "Text", "save", FALSE)
  \/ \E session \in Sessions, agentRunId \in {"", "r1"} :
       GetChatRequest(session, agentRunId, FALSE)
  \/ \E session \in Sessions, content \in {"", "hi"} :
       PostChatRequest(session, content, "r1", FALSE)

SpecApi == MemInit /\ [][ApiNext]_vars

(***************************************************************************)
(* Properties of the API routes                                            *)
(***************************************************************************)
\* C24: every agents row created by POST /api/agent/run has a status the
\* database type declares for agents: pending, running, completed or failed
C24_RunStatusDeclared ==
  \A i \in 1..Len(db.agents) : db.agents[i].status \in AgentStatuses

\* a run created for u1: the row and the response carry the status 'active'
C24_Witness ==
  /\ http.handler = "POST /api/agent/run"
  /\ http.session = "u1"
  /\ http.status = 200
  /\ Len(db.agents) = Len(http.before.agents) + 1
  /\ db.agents[Len(db.agents)].status = "active"
  /\ http.data.status = "active"

\* C27: a request without a session to any of the session-checked handlers
\* gets 401, and the handler issues no select, insert or update: the
\* tables are as before
C27_NoSessionNoQuery ==
  /\ http.handler \in {"none", "POST /api/agent/run", "GET /api/agent/runs",
                       "GET /api/leads", "POST /api/leads", "GET /api/emails",
                       "PUT /api/emails", "POST /api/emails", "GET /api/chat",
                       "POST /api/chat"}
  /\ (http.handler # "none" /\ http.session = NoSession) =>
       /\ http.status = 401
       /\ http.ops = {}
       /\ db = http.before

\* a request without a session to POST chat messages, with content, after
\* messages of a user were stored: 401 and the same rows
C27_Witness ==
  /\ http.handler = "POST /api/chat"
  /\ http.session = NoSession
  /\ http.body.content = "hi"
  /\ http.status = 401
  /\ Len(db.chat_messages) = 2
  /\ Len(db.agents) = 1

(***************************************************************************)
(* The browser: Run Agent modal and page navigation                        *)
(***************************************************************************)
\* RunAgentButton: setIsModalOpen(true) mounts a new modal
ModalOpen ==
  /\ ~ui.modal.isOpen
  /\ ui.modal.pending = 0
  /\ ui' = [ui EXCEPT !.modal = [UiIdle.modal EXCEPT !.isOpen = TRUE]]
  /\ UNCHANGED <<memvars, leadsvars, asked, touched, db, http>>

\* the overlay or the close button: onClose
ModalClose ==
  /\ ui.modal.isOpen
  /\ ui' = [ui EXCEPT !.modal.isOpen = FALSE]
  /\ UNCHANGED <<memvars, leadsvars, asked, touched, db, http>>

\* handleSubmit up to the fetch; the submit button is disabled while
\* isLoading
ModalSubmit ==
  /\ ui.modal.isOpen
  /\ ~ui.modal.isLoading
  /\ ui' = [ui EXCEPT !.modal.isLoading = TRUE, !.modal.error = Null,
                      !.modal.pending = 1, !.modal.outcome = "none",
                      !.modal.created = Null]
  /\ UNCHANGED <<memvars, leadsvars, asked, touched, db, http>>

\* POST /api/agent/run is served and handleSubmit goes on after the fetch:
\* on an ok response onClose() and
\* router.push(`/?agent_run_id=${data.data.agent_run_id}`), else setError;
\* finally setIsLoading(false)
ModalSettle(session, fault) ==
  LET res == PostAgentRun(db, session, RunForm, fault)
      ok == Ok(res.status)
  IN /\ ui.modal.pending = 1
     /\ Fits(res.db)
     /\ db' = res.db
     /\ http' = [handler |-> "POST /api/agent/run", session |-> session,
                 body |-> RunForm, status |-> res.status, data |-> res.data,
                 ops |-> res.ops, before |-> db]
     /\ ui' = [ui EXCEPT
                 !.modal = [@ EXCEPT
                    !.isOpen = IF ok THEN FALSE ELSE @,
                    !.isLoading = FALSE,
                    !.error = IF ok THEN @ ELSE "Failed to start agent",
                    !.pending = 0,
                    !.outcome = IF ok THEN "ok" ELSE "error",
                    !.created = IF ok THEN res.db.agents[Len(res.db.agents)].id
                                ELSE Null],
                 !.route = IF ok
                             THEN [path |-> "/",
                                   agent_run_id |->
                                     Field(res.data, "agent_run_id")]
                             ELSE @]
     /\ UNCHANGED <<memvars, leadsvars, asked, touched>>

\* the visitor asks for a page
Visit(path, session) ==
  /\ \/ ui.visit.path = Null
     \/ ui.visit.rendered # Null
     \/ ui.visit.hops = MaxHops
  /\ ui' = [ui EXCEPT !.visit = [UiIdle.visit EXCEPT !.path = path,
                                                     !.session = session]]
  /\ UNCHANGED <<memvars, leadsvars, asked, touched, db, http>>

\* the server answers the page request under way; the browser follows a
\* redirect with a request for its target
LoadPage ==
  LET r == PageResponse(ui.visit.path, ui.visit.session)
  IN /\ ui.visit.path # Null
     /\ ui.visit.rendered = Null
     /\ ui.visit.hops < MaxHops
     /\ ui' = [ui EXCEPT !.visit =
                 IF r.kind = "redirect"
                   THEN [@ EXCEPT !.path = r.to, !.hops = @ + 1,
                                  !.from = ui.visit.path,
                                  !.answer = "redirect"]
                   ELSE [@ EXCEPT !.from = ui.visit.path,
                                  !.answer = "render",
                                  !.rendered = ui.visit.path]]
     /\ UNCHANGED <<memvars, leadsvars, asked, touched, db, http>>

UiNext ==
  \/ ModalOpen
  \/ ModalClose
  \/ ModalSubmit
  \/ \E session \in {"u1", NoSession}, fault \in BOOLEAN :
       ModalSettle(session, fault)
  \/ \E path \in Pages, session \in {"u1", NoSession} : Visit(path, session)
  \/ LoadPage

SpecUi == MemInit /\ [][UiNext]_vars

\* C25: after the submit of the Run Agent modal got an ok response from
\* POST /api/agent/run, the modal is closed and the route is the chat page
\* with agent_run_id the id of the agents row the request created
C25_NavigatesToCreatedRun ==
  ui.modal.outcome = "ok" =>
    /\ ~ui.modal.isOpen
    /\ ui.route = [path |-> "/", agent_run_id |-> ui.modal.created]

\* the request created the run a1 and the modal closed, but the route is
\* /?agent_run_id=undefined
C25_Witness ==
  /\ ui.modal.outcome = "ok"
  /\ ~ui.modal.isOpen
  /\ ~ui.modal.isLoading
  /\ ui.modal.created = "a1"
  /\ http.status = 200
  /\ http.data.agent_id = "a1"
  /\ ui.route = [path |-> "/", agent_run_id |-> Undefined]

\* C30: for a visitor without a session the request of any page ends, after
\* at most one redirect, with /auth/login rendered: the request of
\* /auth/login is answered with the page and not with a further redirect
C30_LoginPageRendered ==
  ui.visit.session = NoSession =>
    /\ ui.visit.hops <= 1
    /\ ui.visit.from = "/auth/login" => ui.visit.answer = "render"

\* a visitor without a session: every request of /auth/login was
\* answered with a redirect to /auth/login, until the browser gave up
C30_Witness ==
  /\ ui.visit.session = NoSession
  /\ ui.visit.hops = MaxHops
  /\ ui.visit.from = "/auth/login"
  /\ ui.visit.path = "/auth/login"
  /\ ui.visit.answer = "redirect"
  /\ ui.visit.rendered = Null

(***************************************************************************)
(* The browser: chat interface                                             *)
(***************************************************************************)
\* the chat page is rendered: ChatInterface is mounted with its agentRun
ChatMount(agentRun) ==
  /\ ui.chat.inFlight = 0
  /\ ui' = [ui EXCEPT !.chat = [UiIdle.chat EXCEPT !.agentRun = agentRun]]
  /\ UNCHANGED <<memvars, leadsvars, asked, touched, db, http>>

\* setInput: typing in the field, or the Insert button, which is enabled
\* while a send is under way as well
ChatType(text) ==
  /\ ui.chat.input # text
  /\ ui' = [ui EXCEPT !.chat.input = text]
  /\ UNCHANGED <<memvars, leadsvars, asked, touched, db, http>>

\* the submit event of the form: handleSendMessage up to the fetch
ChatSubmit ==
  LET send == ShouldSend(ui.chat.input, ui.chat.isLoading)
      seen == [event |-> "submit", input |-> ui.chat.input,
               wasLoading |-> ui.chat.isLoading, issued |-> send,
               ok |-> FALSE]
  IN /\ send => ui.chat.inFlight < MaxInFlight
     /\ ui' = [ui EXCEPT !.chat =
                 IF send
                   THEN [@ EXCEPT !.input = "", !.isLoading = TRUE,
                                  !.inFlight = @ + 1,
                                  !.content = Strip(ui.chat.input),
                                  !.last = seen]
                   ELSE [@ EXCEPT !.last = seen]]
     /\ UNCHANGED <<memvars, leadsvars, asked, touched, db, http>>

\* the fetch of a send ends and handleSendMessage goes on: an ok response
\* adds the user's and the assistant's message, a response that is not ok
\* or a failed fetch is caught; finally setIsLoading(false)
ChatSettle(session, outcome) ==
  LET res == PostChat(db, session, ui.chat.content, ui.chat.agentRun,
                      outcome = "fault")
      served == outcome # "network"
      ok == served /\ Ok(res.status)
  IN /\ ui.chat.inFlight > 0
     /\ served => Fits(res.db)
     /\ db' = IF served THEN res.db ELSE db
     /\ http' = IF served
                  THEN [handler |-> "POST /api/chat", session |-> session,
                        body |-> [content |-> ui.chat.content,
                                  agent_run_id |-> ui.chat.agentRun],
                        status |-> res.status, data |-> res.data,
                        ops |-> res.ops, before |-> db]
                  ELSE http
     /\ ui' = [ui EXCEPT !.chat =
                 [@ EXCEPT !.isLoading = FALSE,
                           !.inFlight = @ - 1,
                           !.messages = IF ok
                                          THEN @ \o <<res.data.user_message.id,
                                                      res.data.ai_message.id>>
                                          ELSE @,
                           !.last = [event |-> "settle",
                                     input |-> ui.chat.content,
                                     wasLoading |-> ui.chat.isLoading,
                                     issued |-> FALSE, ok |-> ok]]]
     /\ UNCHANGED <<memvars, leadsvars, asked, touched>>

ChatNext ==
  \/ \E agentRun \in {Null, "r1"} : ChatMount(agentRun)
  \/ \E text \in {"", " ", " x "} : ChatType(text)
  \/ ChatSubmit
  \/ \E session \in {"u1", NoSession}, outcome \in {"ok", "fault", "network"} :
       ChatSettle(session, outcome)

SpecChat == MemInit /\ [][ChatNext]_vars

\* C29: at most one send request of the chat interface is in flight: a
\* submit while isLoading is true, or with an input that is empty after
\* the trim, issues no request; and after every send, ok or failed,
\* isLoading is false again
C29_OneSendInFlight ==
  /\ ui.chat.inFlight <= 1
  /\ ui.chat.isLoading <=> ui.chat.inFlight = 1
  /\ ( /\ ui.chat.last.event = "submit"
       /\ ui.chat.last.wasLoading \/ Strip(ui.chat.last.input) = "" )
     => ~ui.chat.last.issued
  /\ ui.chat.last.event = "settle" => ~ui.chat.isLoading

\* while the send of "x" is in flight the form is submitted again with a
\* non-empty input: no second request
C29_Witness ==
  /\ ui.chat.last.event = "submit"
  /\ ui.chat.last.wasLoading
  /\ ui.chat.last.input = " x "
  /\ ~ui.chat.last.issued
  /\ ui.chat.inFlight = 1
  /\ ui.chat.content = "x"
  /\ Len(ui.chat.messages) = 2

====
